---------------------------- MODULE Spec2Model ----------------------------
(***************************************************************************)
(* Model of the hackathon grader's scoring pipeline:                       *)
(*   - the nine scoring agents (src/ai_agents.py),                         *)
(*   - AgentOrchestrator.analyze / _combine_agent_results,                 *)
(*   - AIGrader._map_ai_results_to_grades (src/ai_grader.py),              *)
(*   - AnalysisCache (src/core.py), sequential and multi-threaded.         *)
(*                                                                         *)
(* Confidences are Python floats in the source.  Here a confidence c is    *)
(* the integer c * ConfScale; every constant the agents use (k/10, k/5,    *)
(* k/6, k/50, k/100 and their products with 0.2 and 0.4) is a whole        *)
(* number of these units, so the arithmetic below is exact.                *)
(***************************************************************************)
EXTENDS Integers, Sequences, FiniteSets, TLC

\* ------------------------------------------------------------------ bounds
\* Largest count of matching files / detected patterns fed to a sub-analysis.
MaxCount == 3
\* Largest number of entries of LearningAgent.learning_data before a call.
MaxHistory == 2
\* Largest max_size an AnalysisCache is constructed with.
MaxSize == 2
\* Largest number of lookups (hit_count + miss_count) made on one cache.
MaxLookups == 2
\* Number of request threads that share the cache.
MaxThreads == 2
\* Largest number of weight dicts the caller of a JudgeConfig builds or obtains.
MaxDicts == 2
MaxStored == 12
MaxRequests == 3
MaxAppends == 3
MaxShared == 10

\* ------------------------------------------------------------ arithmetic
Min(a, b) == IF a <= b THEN a ELSE b
Max(a, b) == IF a >= b THEN a ELSE b
Abs(a) == IF a >= 0 THEN a ELSE -a
B(p) == IF p THEN 1 ELSE 0
\* Python's None.
None == [none |-> TRUE]

\* One unit of confidence is 1/ConfScale.
ConfScale == 2 * 2 * 2 * 3 * 5 * 5 * 5
Tenths(k) == (k * ConfScale) \div 10

\* Python's max(0, min(score, 10)).
Unclamped(score) == score
Clamp(score) == Max(0, Min(score, 10))

\* Python 3 round(num/den) for den > 0: the nearest integer, a tie going to the
\* even neighbour.
RoundHalfEven(num, den) ==
    LET q == num \div den
        r == num - q * den
    IN  IF 2 * r < den THEN q
        ELSE IF 2 * r > den THEN q + 1
        ELSE IF q % 2 = 0 THEN q ELSE q + 1

\* ------------------------------------------------ BaseAIAgent (lines 49-73)
get_confidence_score(evidence_count, quality_indicators) ==
    IF evidence_count = 0 THEN 0
    ELSE Min(Min((evidence_count * ConfScale) \div 10, ConfScale)
               + Min((quality_indicators * ConfScale) \div 5, Tenths(3)),
             ConfScale)

\* An AgentAnalysis, reduced to what the orchestrator combines: the score, the
\* confidence and the number of risk entries.
AgentAnalysis(s, c, r) == [score |-> s, confidence |-> c, risks |-> r]


\* A sub-analysis that grades a count of matching files: 2 points for two or
\* more, 1 point for one, and one evidence entry when it found any
\* (_analyze_caching_strategy, _analyze_async_processing, _analyze_load_handling).
Tiered(n) ==
    [score |-> IF n >= 2 THEN 2 ELSE IF n >= 1 THEN 1 ELSE 0, evidence |-> B(n >= 1)]

\* -------------------------------------- CodeAnalysisAgent (lines 110-534)
\* test_results abstracts artifacts['test_results']: absent or empty ("none"),
\* or a text that contains 'passed', 'coverage', both, or neither ("plain").
TestResultKinds == {"none", "plain", "passed", "coverage", "both"}
_analyze_tests(test_files, test_results) ==
    LET passed == test_results \in {"passed", "both"}
        coverage == test_results \in {"coverage", "both"}
    IN  [score |-> 2 * B(test_files > 0) + 2 * B(passed) + B(coverage),
         evidence |-> B(test_files > 0) + B(passed) + B(coverage)]

\* readme abstracts the README text: "empty", "plain" (no code fence) or "code".
ReadmeKinds == {"empty", "plain", "code"}
_analyze_documentation(readme, doc_files) ==
    [score |-> B(readme # "empty") + B(readme = "code") + B(doc_files > 1),
     evidence |-> B(readme # "empty") + B(readme = "code") + B(doc_files > 1)]

\* f.good, f.bad, f.security, f.perf are the lengths of patterns['good_patterns'],
\* ['bad_patterns'], ['security_concerns'], ['performance_issues'] returned by
\* _analyze_code_patterns; f.unique_bad is len(set(bad_patterns[:3])).
CodeRawScore(f) ==
    2 * B(f.code_files > 0) + f.good - f.bad - 2 * B(f.security > 0) - B(f.perf > 0)
      + _analyze_tests(f.test_files, f.test_results).score
      + _analyze_documentation(f.readme, f.doc_files).score
CodeEvidence(f) ==
    1 + Min(f.good, 3)
      + _analyze_tests(f.test_files, f.test_results).evidence
      + _analyze_documentation(f.readme, f.doc_files).evidence
CodeAnalysisAgent_analyze(f) ==
    AgentAnalysis(Clamp(CodeRawScore(f)),
                  get_confidence_score(CodeEvidence(f), f.good),
                  f.unique_bad + B(f.security > 0))

\* -------------------------------------- ArchitectureAgent (lines 537-1132)
_analyze_structure(found_dirs) ==
    [score |-> IF found_dirs >= 3 THEN 3 ELSE IF found_dirs >= 1 THEN 1 ELSE 0,
     evidence |-> 1 + B(found_dirs >= 1)]
_analyze_layer_separation(found_layers) ==
    [score |-> IF found_layers >= 3 THEN 2 ELSE IF found_layers >= 2 THEN 1 ELSE 0,
     evidence |-> B(found_layers >= 2), insights |-> B(found_layers >= 2)]
_analyze_data_flow(data_flow_count, control_flow_count) ==
    [score |-> B(data_flow_count >= 3) + B(control_flow_count >= 2),
     evidence |-> B(data_flow_count >= 3) + B(control_flow_count >= 2),
     insights |-> B(data_flow_count >= 3) + B(control_flow_count >= 2)]
_analyze_design_patterns(found_patterns, layer, flow, readme_arch) ==
    [score |-> 2 * B(found_patterns > 0) + layer.score + flow.score + B(readme_arch),
     evidence |-> B(found_patterns > 0) + layer.evidence + flow.evidence + B(readme_arch),
     insights |-> B(found_patterns > 0) + layer.insights + flow.insights]
_analyze_scalability_design(horizontal_count, vertical_count) ==
    [score |-> Tiered(horizontal_count).score + B(vertical_count >= 2),
     evidence |-> B(horizontal_count >= 1) + B(vertical_count >= 2)]
\* design, caching, async, load are the four nested sub-analyses; the flags are
\* found_config, a Dockerfile path, a .github path and artifacts['perf_notes'].
_analyze_scalability(design, caching, async, load, config, docker, ci, perf_notes) ==
    [score |-> design.score + caching.score + async.score + load.score
                 + B(config) + 2 * B(docker) + B(ci) + B(perf_notes),
     evidence |-> design.evidence + caching.evidence + async.evidence + load.evidence
                 + B(config) + B(docker) + B(ci) + B(perf_notes)]
_analyze_security_architecture(found_security, env_example, sast) ==
    [score |-> 2 * B(found_security) + B(env_example) + B(sast),
     evidence |-> B(found_security) + B(env_example) + B(sast),
     risks |-> B(~found_security)]
_check_architectural_consistency(pattern_consistency) ==
    [score |-> IF pattern_consistency >= 4 THEN 2
               ELSE IF pattern_consistency >= 2 THEN 1 ELSE 0,
     evidence |-> B(pattern_consistency >= 2), insights |-> B(pattern_consistency >= 2)]
\* coverage_ratio = found/6: >= 0.8 from 5 found components on, >= 0.5 from 3 on.
_check_implementation_gaps(found_components) ==
    [score |-> IF found_components >= 5 THEN 2
               ELSE IF found_components >= 3 THEN 1 ELSE 0,
     evidence |-> 1, insights |-> 1]
_analyze_code_architecture_alignment(consistency, gaps) ==
    [score |-> consistency.score + gaps.score,
     evidence |-> consistency.evidence + gaps.evidence,
     insights |-> consistency.insights + gaps.insights]
\* f holds the five sub-analysis results analyze() sums up.
ArchitectureAgent_analyze(f) ==
    AgentAnalysis(
        Clamp(f.structure.score + f.patterns.score + f.scalability.score
                + f.security.score + f.alignment.score),
        get_confidence_score(
            f.structure.evidence + f.patterns.evidence + f.scalability.evidence
              + f.security.evidence + f.alignment.evidence,
            f.patterns.insights + f.alignment.insights),
        f.security.risks)

\* ----------------------------------------------- UIUXAgent (lines 1135-1545)
_analyze_ui_files(ui_files, react, vue, angular, components, css_frameworks) ==
    IF ui_files > 0
    THEN [score |-> 3 + 2 * B(react) + 2 * B(vue) + 2 * B(angular)
                      + B(components) + B(css_frameworks),
          evidence |-> 1 + B(react) + B(vue) + B(angular) + B(components)
                         + B(css_frameworks)]
    ELSE [score |-> 0, evidence |-> 0]
_analyze_accessibility(found_a11y, accessibility_notes) ==
    [score |-> 2 * B(found_a11y) + 2 * B(accessibility_notes),
     evidence |-> B(found_a11y) + B(accessibility_notes)]
_analyze_responsive_design(css_files, mobile_files) ==
    [score |-> B(css_files > 0) + B(mobile_files > 0),
     evidence |-> B(css_files > 0) + B(mobile_files > 0)]
_analyze_demo(screenshots_or_demo) ==
    [score |-> 2 * B(screenshots_or_demo), evidence |-> B(screenshots_or_demo)]
\* One externally supplied sub-score of the UI execution (a float in the
\* source), reduced to the bucket the code puts it in: 2 (> 7), 1 (> 5), 0.
ExecutionBuckets == 0 .. 2
\* kind: "none" (no renderer, or the project path does not exist: the method
\* returns None), "failed" (execute_web_app reported success False), "raised"
\* (the except branch) or "ran"; q is the four buckets, shots and issues say
\* whether screenshots and analysis['issues'] are non-empty.
UIUXAgent_analyze_ui_execution(kind, q, shots, issues) ==
    CASE kind = "none" -> [score |-> 0, evidence |-> 0, insights |-> 0, ran |-> FALSE]
      [] kind = "failed" -> [score |-> 4, evidence |-> 4, insights |-> 4, ran |-> TRUE]
      [] kind = "raised" -> [score |-> 0, evidence |-> 1, insights |-> 1, ran |-> TRUE]
      [] OTHER ->
           [score |-> Min(q[1] + q[2] + q[3] + q[4] + B(shots), 5),
            evidence |-> 4 + B(shots) + B(issues),
            insights |-> B(shots), ran |-> TRUE]
\* f holds the sub-analysis results: ui, a11y, responsive, demo, execution.
UIUXAgent_analyze(f) ==
    AgentAnalysis(
        Clamp(f.ui.score + f.a11y.score + f.responsive.score + f.demo.score
                + f.execution.score),
        get_confidence_score(
            f.ui.evidence + f.a11y.evidence + f.responsive.evidence + f.demo.evidence
              + f.execution.evidence,
            f.execution.insights + B(f.ui.score > 0) + B(f.a11y.score > 0)
              + B(f.responsive.score > 0) + B(f.demo.score > 0)
              + B(f.execution.ran /\ f.execution.score > 0)),
        0)

\* -------------------------------------------- SecurityAgent (lines 1548-1787)
_analyze_secrets_management(env_example, gitignore) ==
    [score |-> 2 * B(env_example) + B(gitignore),
     evidence |-> B(env_example) + B(gitignore),
     risks |-> B(~env_example)]
\* sast abstracts artifacts['sast_results']: "none", or a text containing
\* 'no critical' ("clean"), else 'vulnerability' ("vulnerable"), else "plain".
SastKinds == {"none", "plain", "clean", "vulnerable"}
_analyze_dependencies(found_packages, sast) ==
    [score |-> B(found_packages) + 2 * B(sast = "clean"),
     evidence |-> B(found_packages) + B(sast = "clean"),
     risks |-> B(sast = "vulnerable")]
_analyze_input_validation(found_validation) ==
    [score |-> 2 * B(found_validation), evidence |-> B(found_validation)]
_analyze_authentication(found_auth) ==
    [score |-> 2 * B(found_auth), evidence |-> B(found_auth)]
\* insights is still empty when the confidence is computed (line 1592).
SecurityAgent_analyze(f) ==
    AgentAnalysis(
        Clamp(f.secrets.score + f.deps.score + f.validation.score + f.auth.score),
        get_confidence_score(
            f.secrets.evidence + f.deps.evidence + f.validation.evidence
              + f.auth.evidence, 0),
        f.secrets.risks + f.deps.risks)

\* ------------------------------- InnovationCreativityAgent (lines 2410-2882)
\* project_summary: the extracted summary is non-empty; features_list and
\* tech_stack: the lengths of the extracted lists.
InnovationOverall(project_summary, features_list, tech_stack) ==
    (Min(7, tech_stack + features_list) + Min(8, tech_stack * 2)
       + (IF project_summary THEN 6 ELSE 3) + Min(7, features_list)
       + Min(6, tech_stack)) \div 5
InnovationCreativityAgent_simulate_analysis(project_summary, features_list, tech_stack) ==
    LET evidence_count == B(project_summary) + B(features_list > 0) + B(tech_stack > 0)
        base == Min((evidence_count * ConfScale) \div 6, ConfScale)
        overall == InnovationOverall(project_summary, features_list, tech_stack)
    IN  [overall_numeric |-> overall,
         confidence_estimate |->
             IF project_summary /\ features_list > 0
             THEN Min(base + Tenths(1), ConfScale) ELSE base,
         risks_or_caveats |->
             Min(4, 3 * B(overall < 5) + B(~project_summary) + B(features_list = 0))]
InnovationCreativityAgent_analyze(f) ==
    LET result == InnovationCreativityAgent_simulate_analysis(
                      f.project_summary, f.features_list, f.tech_stack)
    IN  AgentAnalysis(Clamp(result.overall_numeric), result.confidence_estimate,
                      result.risks_or_caveats)

\* --------------------------- FunctionalityCompletenessAgent (lines 2885-3266)
\* The rows of the flow coverage table are the first 8 features; row i (from 0)
\* is implemented when i < len(features_list) * 0.7.
ImplementedFlows(features_list) ==
    Cardinality({i \in 0 .. (Min(features_list, 8) - 1) : 10 * i < 7 * features_list})
FunctionalityConfidence(demo_reference, api_endpoints, test_summary, user_flows) ==
    Min(Tenths(2) + Tenths(2) * (B(demo_reference) + B(api_endpoints)
                                   + B(test_summary) + B(user_flows)),
        ConfScale)
FunctionalityCompletenessAgent_simulate_analysis(f) ==
    LET total_flows == Min(f.features_list, 8)
        implemented_flows == ImplementedFlows(f.features_list)
        \* int(implementation_ratio * 8 + bonuses), the bonuses being integers
        base_score == (IF total_flows > 0
                       THEN (8 * implemented_flows) \div total_flows ELSE 0)
                        + B(f.test_summary) + B(f.demo_reference)
    IN  [overall_numeric |-> Min(base_score, 10),
         confidence_estimate |->
             FunctionalityConfidence(f.demo_reference, f.api_endpoints,
                                     f.test_summary, f.user_flows),
         gaps_or_edge_cases |->
             B(~f.test_summary) + B(~f.demo_reference) + B(~f.api_endpoints)]
FunctionalityCompletenessAgent_analyze(f) ==
    LET result == FunctionalityCompletenessAgent_simulate_analysis(f)
    IN  AgentAnalysis(Clamp(result.overall_numeric), result.confidence_estimate,
                      result.gaps_or_edge_cases)

\* --------------------------------- TechnicalComplexityAgent (lines 3269-3704)
\* tech_stack, performance_signals, security_signals: list lengths;
\* distinct_signals: len(set(tech_stack + performance_signals + security_signals)).
TechnicalComplexityAgent_simulate_analysis(f) ==
    LET drivers == B(f.tech_stack > 5) + B(f.architecture_notes) + B(f.data_flows)
                     + B(f.performance_signals > 0) + B(f.security_signals > 0)
        base_score == drivers * 2 + B(f.architecture_notes) + B(f.data_flows)
                        + B(f.performance_signals > 0) + B(f.security_signals > 0)
        signals == f.distinct_signals + B(f.architecture_notes) + B(f.data_flows)
    IN  [overall_numeric |-> Min(base_score, 10),
         confidence_estimate |-> Min((signals * ConfScale) \div 6, ConfScale)]
TechnicalComplexityAgent_analyze(f) ==
    LET result == TechnicalComplexityAgent_simulate_analysis(f)
    IN  AgentAnalysis(Clamp(result.overall_numeric), result.confidence_estimate, 0)

\* ------------------------------------------ UIUXPolishAgent (lines 3707-4160)
\* screenshots: the length of inputs_dict['screenshots'] (the artifact, or the
\* list the UI execution put in its place).
UIUXPolishAgent_simulate_analysis(f) ==
    LET base == IF f.screenshots >= 2 THEN Tenths(8)
                ELSE IF f.screenshots = 1 THEN Tenths(6) ELSE Tenths(3)
        c1 == IF f.ui_routes THEN Min(base + Tenths(1), ConfScale) ELSE base
        c2 == IF f.copy_examples THEN Min(c1 + Tenths(1), ConfScale) ELSE c1
        visual_polish == IF f.screenshots > 0 THEN 6 ELSE 4
        spacing_alignment == IF f.ui_routes THEN 6 ELSE 4
        hierarchy_layout == IF f.brand_notes THEN 6 ELSE 4
        color_contrast == IF f.screenshots > 0 THEN 5 ELSE 3
        typography == IF f.copy_examples THEN 6 ELSE 4
    IN  [overall_numeric |-> (visual_polish + spacing_alignment + hierarchy_layout
                                + color_contrast + typography) \div 5,
         confidence_estimate |-> c2,
         limitations |-> B(f.screenshots = 0)]
UIUXPolishAgent_analyze(f) ==
    LET result == UIUXPolishAgent_simulate_analysis(f)
    IN  AgentAnalysis(Clamp(result.overall_numeric), result.confidence_estimate,
                      result.limitations)

\* -------------------------------------------- LearningAgent (lines 1790-2301)
\* The agent's memory: learning_data is kept as its length, pattern_weights as
\* a function from the patterns seen so far to weights in tenths.  Pattern
\* names are pairs: <<"flag", "has_tests">> stands for 'has_tests',
\* <<"tech", "Python">> for 'tech_Python', <<"arch", "MVC">> for 'arch_MVC'.
HistoryCap == 1000
FreshLearning == [learning_data |-> 0, pattern_weights |-> << >>]

\* `pattern in str(features)`: the printed dictionary holds the keys
\* 'has_tests' and 'has_docs' and no text starting with tech_, arch_ or no_.
PatternInFeatures(pattern) ==
    pattern[1] = "flag" /\ pattern[2] \in {"has_tests", "has_docs"}

RECURSIVE SumWeights(_, _)
SumWeights(w, keys) ==
    IF keys = {} THEN 0
    ELSE LET k == CHOOSE x \in keys : TRUE
         IN  w[k] + SumWeights(w, keys \ {k})

\* The score before rounding, in tenths.
PredictedTenths(self, features) ==
    50 + 10 * B(features.file_count > 10) + 10 * B(features.file_count > 50)
       + 15 * B(features.has_tests) + 10 * B(features.has_docs)
       + 5 * B(features.config_file_count > 0) + 10 * B(features.has_dockerfile)
       + 10 * B(features.has_ci_cd) + 10 * B(features.security_files > 0)
       + 5 * B(Cardinality(features.technology_stack) > 1)
       + 10 * B(features.architecture_patterns # {})
       + SumWeights(self.pattern_weights,
                    {k \in DOMAIN self.pattern_weights : PatternInFeatures(k)})
_predict_score(self, features) ==
    IF self.learning_data = 0 THEN 5
    ELSE Max(0, Min(RoundHalfEven(PredictedTenths(self, features), 10), 10))

\* complexity_score > 0.7, cleared of its denominators (times 1500 * file_count).
HighComplexity(features) ==
    LET fc == features.file_count
    IN  IF fc = 0
        THEN 60 * Min(Cardinality(features.technology_stack), 5)
               + 100 * Min(Cardinality(features.architecture_patterns), 3) > 1050
        ELSE 9 * Min(fc, 50) * fc + 450 * features.code_file_count
               + 60 * Min(Cardinality(features.technology_stack), 5) * fc
               + 100 * Min(Cardinality(features.architecture_patterns), 3) * fc
               > 1050 * fc
_identify_risk_patterns(features) ==
    B(HighComplexity(features) /\ ~features.has_tests)
      + B(features.code_file_count > 20 /\ ~features.has_docs)
      + B(features.file_count > 10 /\ features.config_file_count = 0)
      + B(features.code_file_count > 15 /\ features.security_files = 0)

_calculate_ml_confidence(self, features) ==
    IF self.learning_data = 0 THEN ConfScale \div 2
    ELSE LET data_confidence ==
                 Min((self.learning_data * ConfScale) \div 100, ConfScale)
             feature_confidence ==
                 Tenths(2) * (B(features.file_count > 0) + B(features.has_readme)
                                + B(features.technology_stack # {})
                                + B(features.architecture_patterns # {})
                                + B(features.has_tests))
             pattern_confidence ==
                 Min((Cardinality(DOMAIN self.pattern_weights) * ConfScale) \div 50,
                     ConfScale)
             total_confidence ==
                 (4 * data_confidence + 4 * feature_confidence
                    + 2 * pattern_confidence) \div 10
         IN  Min(Max(total_confidence, Tenths(1)), ConfScale)

\* pattern_weights[pattern] += delta on a defaultdict(float).
AddWeight(w, pattern, delta) ==
    [k \in DOMAIN w \cup {pattern} |->
        IF k = pattern THEN (IF k \in DOMAIN w THEN w[k] ELSE 0) + delta ELSE w[k]]
RECURSIVE AddWeights(_, _, _)
AddWeights(w, patterns, delta) ==
    IF patterns = {} THEN w
    ELSE LET k == CHOOSE x \in patterns : TRUE
         IN  AddWeights(AddWeight(w, k, delta), patterns \ {k}, delta)
\* An update that would reward from a score of 5 on.
_update_pattern_weights_from_five(w, features, score) ==
    LET rewarded ==
            {<<"tech", t>> : t \in features.technology_stack}
              \cup {<<"arch", a>> : a \in features.architecture_patterns}
              \cup (IF features.has_tests THEN {<<"flag", "has_tests">>} ELSE {})
              \cup (IF features.has_docs THEN {<<"flag", "has_docs">>} ELSE {})
        updated == IF score >= 5 THEN AddWeights(w, rewarded, 1) ELSE w
    IN  [k \in DOMAIN updated |-> Max(-10, Min(10, updated[k]))]
\* An update that would also penalise the default score of 5.
_update_pattern_weights_penalise_five(w, features, score) ==
    LET rewarded ==
            {<<"tech", t>> : t \in features.technology_stack}
              \cup {<<"arch", a>> : a \in features.architecture_patterns}
              \cup (IF features.has_tests THEN {<<"flag", "has_tests">>} ELSE {})
              \cup (IF features.has_docs THEN {<<"flag", "has_docs">>} ELSE {})
        penalised ==
            (IF ~features.has_tests THEN {<<"flag", "no_tests">>} ELSE {})
              \cup (IF ~features.has_docs THEN {<<"flag", "no_docs">>} ELSE {})
        updated == IF score >= 7 THEN AddWeights(w, rewarded, 1)
                   ELSE IF score <= 5 THEN AddWeights(w, penalised, -1)
                   ELSE w
    IN  [k \in DOMAIN updated |-> Max(-10, Min(10, updated[k]))]
_update_pattern_weights(w, features, score) ==
    LET rewarded ==
            {<<"tech", t>> : t \in features.technology_stack}
              \cup {<<"arch", a>> : a \in features.architecture_patterns}
              \cup (IF features.has_tests THEN {<<"flag", "has_tests">>} ELSE {})
              \cup (IF features.has_docs THEN {<<"flag", "has_docs">>} ELSE {})
        penalised ==
            (IF ~features.has_tests THEN {<<"flag", "no_tests">>} ELSE {})
              \cup (IF ~features.has_docs THEN {<<"flag", "no_docs">>} ELSE {})
        updated == IF score >= 7 THEN AddWeights(w, rewarded, 1)
                   ELSE IF score <= 3 THEN AddWeights(w, penalised, -1)
                   ELSE w
    IN  [k \in DOMAIN updated |-> Max(-10, Min(10, updated[k]))]
_store_analysis(self, features, score) ==
    [learning_data |-> Min(self.learning_data + 1, HistoryCap),
     pattern_weights |-> _update_pattern_weights(self.pattern_weights, features, score)]

\* The list itself, lines 2213-2217: append, then keep the last thousand.
\* KeepFirst is the cut at the wrong end.
KeepFirst(learning_data, analysis_data) ==
    LET appended == Append(learning_data, analysis_data)
    IN  IF Len(appended) > HistoryCap THEN SubSeq(appended, 1, HistoryCap)
        ELSE appended
KeepRecent(learning_data, analysis_data) ==
    LET appended == Append(learning_data, analysis_data)
    IN  IF Len(appended) > HistoryCap
        THEN SubSeq(appended, Len(appended) - HistoryCap + 1, Len(appended))
        ELSE appended
\* The file learning_data.json: absent (None) or the memory last saved.
\* _store_analysis, lines 2222-2224: saved when the length of learning_data
\* is a multiple of ten.
SaveEvery == 10
\* A save after every analysis.
_save_learning_data_always(self, file) == self
_save_learning_data(self, file) ==
    IF self.learning_data % SaveEvery = 0 THEN self ELSE file
\* __init__ and _load_learning_data, lines 1793-1805 and 2274-2287.
_load_learning_data(file) == IF file = None THEN FreshLearning ELSE file

\* An analyze that would store the analysis before predicting.
LearningAgent_analyze_store_first(self, features) ==
    LET stored == _store_analysis(self, features, _predict_score(self, features))
    IN  AgentAnalysis(Clamp(_predict_score(stored, features)),
                      _calculate_ml_confidence(stored, features),
                      _identify_risk_patterns(features))
\* analyze returns the verdict; LearningAgent_after is the memory it leaves.
LearningAgent_analyze(self, features) ==
    AgentAnalysis(Clamp(_predict_score(self, features)),
                  _calculate_ml_confidence(self, features),
                  _identify_risk_patterns(features))
LearningAgent_after(self, features) ==
    _store_analysis(self, features, _predict_score(self, features))

\* ------------------------------------------- AnalysisCache (src/core.py 161-243)
\* Strings are sequences of one-character strings.  CodePoint orders the
\* characters the keys are built from the way Python compares them.
CodePoint(c) ==
    CASE c = "1" -> 49 [] c = "2" -> 50 [] c = "3" -> 51 [] c = "4" -> 52
      [] c = "5" -> 53 [] c = "6" -> 54 [] c = "7" -> 55 [] c = "8" -> 56
      [] c = "9" -> 57 [] c = ":" -> 58 [] c = "m" -> 109 [] c = "r" -> 114
      [] OTHER -> 120
\* Python's str < str: lexicographic, a proper prefix being the smaller.
RECURSIVE StrLess(_, _)
StrLess(a, b) ==
    IF b = << >> THEN FALSE
    ELSE IF a = << >> THEN TRUE
    ELSE IF CodePoint(Head(a)) # CodePoint(Head(b))
         THEN CodePoint(Head(a)) < CodePoint(Head(b))
    ELSE StrLess(Tail(a), Tail(b))
\* sorted(list of strings), by insertion.
RECURSIVE Insert(_, _)
Insert(x, sorted_list) ==
    IF sorted_list = << >> THEN <<x>>
    ELSE IF StrLess(Head(sorted_list), x)
         THEN <<Head(sorted_list)>> \o Insert(x, Tail(sorted_list))
    ELSE <<x>> \o sorted_list
Unsorted(list) == list
RECURSIVE sorted(_)
sorted(list) ==
    IF list = << >> THEN << >> ELSE Insert(Head(list), sorted(Tail(list)))
\* ':'.join(list)
RECURSIVE Join(_)
Join(list) ==
    IF list = << >> THEN << >>
    ELSE IF Len(list) = 1 THEN Head(list)
    ELSE Head(list) \o <<":">> \o Join(Tail(list))
\* f"{repo_url}:{branch}:{':'.join(sorted(selected_agents))}"  (lines 237, 242)
CacheKey(repo_url, branch, selected_agents) ==
    repo_url \o <<":">> \o branch \o <<":">> \o Join(sorted(selected_agents))

\* The OrderedDict is a sequence of entries, oldest first.
Entry(key, value) == [key |-> key, value |-> value]
KeyIn(cache, key) == \E i \in 1 .. Len(cache) : cache[i].key = key
ValueOf(cache, key) ==
    (CHOOSE e \in {cache[i] : i \in 1 .. Len(cache)} : e.key = key).value
Pop(cache, key) ==
    LET Keep(e) == e.key # key IN SelectSeq(cache, Keep)
AnalysisCache_init(max_size) ==
    [max_size |-> max_size, cache |-> << >>, hit_count |-> 0, miss_count |-> 0]

\* get (lines 172-184): the new cache object and the value returned.
AnalysisCache_get_nopromote(self, key) ==
    IF KeyIn(self.cache, key)
    THEN [self |-> [self EXCEPT !.hit_count = @ + 1],
          value |-> ValueOf(self.cache, key)]
    ELSE [self |-> [self EXCEPT !.miss_count = @ + 1], value |-> None]
AnalysisCache_get(self, key) ==
    IF KeyIn(self.cache, key)
    THEN LET value == ValueOf(self.cache, key)
         IN  [self |-> [self EXCEPT !.cache = Append(Pop(self.cache, key),
                                                     Entry(key, value)),
                                    !.hit_count = @ + 1],
              value |-> value]
    ELSE [self |-> [self EXCEPT !.miss_count = @ + 1], value |-> None]

\* set (lines 186-198).
AnalysisCache_set_noevict(self, key, value) ==
    [self EXCEPT !.cache = Append(Pop(self.cache, key), Entry(key, value))]
AnalysisCache_set(self, key, value) ==
    LET kept == IF KeyIn(self.cache, key) THEN Pop(self.cache, key)
                ELSE IF Len(self.cache) >= self.max_size
                     THEN Pop(self.cache, Head(self.cache).key)
                ELSE self.cache
    IN  [self EXCEPT !.cache = Append(kept, Entry(key, value))]

\* clear (lines 200-205).
AnalysisCache_clear(self) ==
    [self EXCEPT !.cache = << >>, !.hit_count = 0, !.miss_count = 0]

\* get_analysis / set_analysis (lines 235-243).
AnalysisCache_get_analysis(self, repo_url, branch, selected_agents) ==
    AnalysisCache_get(self, CacheKey(repo_url, branch, selected_agents))
\* A set_analysis that would keep failure results out of the cache.
AnalysisCache_set_analysis_unless_error(self, repo_url, branch, selected_agents, result) ==
    IF "error" \in DOMAIN result /\ result.error = TRUE THEN self
    ELSE AnalysisCache_set(self, CacheKey(repo_url, branch, selected_agents), result)
AnalysisCache_set_analysis(self, repo_url, branch, selected_agents, result) ==
    AnalysisCache_set(self, CacheKey(repo_url, branch, selected_agents), result)

\* ===================================================================== state
VARIABLES
    analysis,         \* the AgentAnalysis the last agent call returned
    learning,         \* LearningAgent: learning_data (length) and pattern_weights
    phase,            \* where the grading request stands
    context,          \* the evidence context of the request
    selected_agents,  \* the selection passed to grade / analyze
    failing,          \* the agents whose analyze raises in this request
    agent_results,    \* AgentOrchestrator.analyze: agent_results, in run order
    ai_results,       \* what AgentOrchestrator.analyze returned
    final_results,    \* what AIGrader.grade returned
    analysis_cache,   \* the AnalysisCache object
    used,             \* history: the entries ever set, ordered by their last get-hit or set
    last_call,        \* the cache call that led to this state
    pc,               \* per thread: the statement it is about to execute
    frame,            \* per thread: the call's arguments and locals
    heap,             \* the dict objects of the weight configuration, by identity
    judge,            \* the JudgeConfig object: which dicts are its weights and defaults
    config_file,      \* the contents of the judge's config file, None when there is none
    held,             \* the dicts the caller of the JudgeConfig still holds
    judge_call,       \* the JudgeConfig call that led to this state
    data_file,        \* what learning_data.json holds, None when there is no such file
    replayed,         \* the calls made on the LearningAgent since it was constructed
    before,           \* the LearningAgent's memory when its last analyze call began
    stored,           \* LearningAgent.learning_data as a list, oldest entry first
    repo_url,         \* the repository URL of the request
    github,           \* what GitHub does with the fetches of the request
    responses         \* what the web endpoint answered, request by request

learnVars == <<data_file, replayed, before, stored>>
agentVars == <<analysis, learning, learnVars>>
gradeVars == <<phase, context, selected_agents, failing, agent_results,
               ai_results, final_results, repo_url, github, responses>>
cacheVars == <<analysis_cache, used, last_call>>
threadVars == <<pc, frame>>
judgeVars == <<heap, judge, config_file, held, judge_call>>
vars == <<analysis, learning, phase, context, selected_agents, failing,
          agent_results, ai_results, final_results, analysis_cache, used,
          last_call, pc, frame, heap, judge, config_file, held, judge_call,
          data_file, replayed, before, stored, repo_url, github, responses>>

\* Values of the variables a specification does not use.
Idle == [op |-> "none", selected_agents |-> << >>, hit |-> FALSE, evicted |-> FALSE]
LearnUnused ==
    data_file = None /\ replayed = << >> /\ before = None /\ stored = << >>
AgentsUnused == analysis = None /\ learning = FreshLearning /\ LearnUnused
GradeUnused ==
    /\ phase = "unused" /\ context = None /\ selected_agents = << >>
    /\ failing = {} /\ agent_results = << >> /\ ai_results = None
    /\ final_results = None
    /\ repo_url = << >> /\ github = "unused" /\ responses = << >>
CacheUnused == analysis_cache = None /\ used = << >> /\ last_call = Idle
ThreadsUnused == pc = << >> /\ frame = << >>
JudgeUnused ==
    /\ heap = << >> /\ judge = None /\ config_file = None /\ held = {}
    /\ judge_call = None

\* ========================================================== the cache, one caller
\* Agent selections the cache is keyed with: the orderings of the non-empty
\* subsets of two agent identifiers.
CacheIds == {<<"1">>, <<"2">>}
CacheSelections ==
    {<<a>> : a \in CacheIds}
      \cup {p \in {<<a, b>> : a \in CacheIds, b \in CacheIds} : p[1] # p[2]}
Repos == {<<"r">>}
Branches == {<<"m">>}
CacheKeys ==
    {CacheKey(r, b, sel) : r \in Repos, b \in Branches, sel \in CacheSelections}
\* A cached result, reduced to the selection it was computed for.
CacheResults == {[selected_agents |-> sel] : sel \in CacheSelections}

\* The history the LRU claims are stated against, kept from the calls alone.
Touch(history, key, value) == Append(Pop(history, key), Entry(key, value))

InitCache ==
    /\ \E n \in 1 .. MaxSize : analysis_cache = AnalysisCache_init(n)
    /\ used = << >>
    /\ last_call = Idle
    /\ AgentsUnused /\ GradeUnused /\ ThreadsUnused /\ JudgeUnused

UsedAfterGet(key) ==
    IF KeyIn(analysis_cache.cache, key)
    THEN Touch(used, key, ValueOf(analysis_cache.cache, key)) ELSE used
GetCall(op, sel, key) ==
    [op |-> op, selected_agents |-> sel,
     hit |-> AnalysisCache_get(analysis_cache, key).value # None, evicted |-> FALSE]
SetCall(op, sel, key) ==
    [op |-> op, selected_agents |-> sel, hit |-> FALSE,
     evicted |-> /\ ~KeyIn(analysis_cache.cache, key)
                 /\ Len(analysis_cache.cache) >= analysis_cache.max_size]

CacheGet ==
    \E key \in CacheKeys :
        /\ analysis_cache.hit_count + analysis_cache.miss_count < MaxLookups
        /\ analysis_cache' = AnalysisCache_get(analysis_cache, key).self
        /\ used' = UsedAfterGet(key)
        /\ last_call' = GetCall("get", << >>, key)
        /\ UNCHANGED <<agentVars, gradeVars, threadVars, judgeVars>>
CacheSet ==
    \E key \in CacheKeys, value \in CacheResults :
        /\ analysis_cache' = AnalysisCache_set(analysis_cache, key, value)
        /\ used' = Touch(used, key, value)
        /\ last_call' = SetCall("set", << >>, key)
        /\ UNCHANGED <<agentVars, gradeVars, threadVars, judgeVars>>
CacheClear ==
    /\ analysis_cache' = AnalysisCache_clear(analysis_cache)
    /\ used' = << >>
    /\ last_call' = [Idle EXCEPT !.op = "clear"]
    /\ UNCHANGED <<agentVars, gradeVars, threadVars, judgeVars>>
CacheGetAnalysis ==
    \E r \in Repos, b \in Branches, sel \in CacheSelections :
        /\ analysis_cache.hit_count + analysis_cache.miss_count < MaxLookups
        /\ analysis_cache' = AnalysisCache_get_analysis(analysis_cache, r, b, sel).self
        /\ used' = UsedAfterGet(CacheKey(r, b, sel))
        /\ last_call' = GetCall("get_analysis", sel, CacheKey(r, b, sel))
        /\ UNCHANGED <<agentVars, gradeVars, threadVars, judgeVars>>
CacheSetAnalysis ==
    \E r \in Repos, b \in Branches, sel \in CacheSelections :
        /\ analysis_cache' =
               AnalysisCache_set_analysis(analysis_cache, r, b, sel,
                                          [selected_agents |-> sel])
        /\ used' = Touch(used, CacheKey(r, b, sel), [selected_agents |-> sel])
        /\ last_call' = SetCall("set_analysis", sel, CacheKey(r, b, sel))
        /\ UNCHANGED <<agentVars, gradeVars, threadVars, judgeVars>>

NextCache ==
    \/ CacheGet
    \/ CacheSet
    \/ CacheClear
    \/ CacheGetAnalysis
    \/ CacheSetAnalysis
SpecCache == InitCache /\ [][NextCache]_vars

\* ------------------------------------------------------------ cache claims
\* The last n entries of a sequence.
Suffix(seq, n) == SubSeq(seq, Len(seq) - n + 1, Len(seq))
\* The place of a key in the cache, 0 when it is not there.
Position(cache, key) ==
    IF KeyIn(cache, key) THEN CHOOSE i \in 1 .. Len(cache) : cache[i].key = key ELSE 0
Range(list) == {list[i] : i \in 1 .. Len(list)}
IsPermutation(a, b) ==
    /\ Len(a) = Len(b)
    /\ \A x \in Range(a) \cup Range(b) :
           Cardinality({i \in 1 .. Len(a) : a[i] = x})
             = Cardinality({i \in 1 .. Len(b) : b[i] = x})

\* C7: the cache is strict LRU.  After any sequence of get and set calls (and
\* clear) the cache holds exactly the max_size entries whose last get-hit or set
\* is the most recent, each with the value last set for it, ordered from the
\* least to the most recently used: so a get-hit makes its key the most recent
\* one, and a set of a new key on a full cache drops the one entry used longest
\* ago and nothing else.
C7_StrictLRU ==
    analysis_cache # None =>
        analysis_cache.cache = Suffix(used, Min(analysis_cache.max_size, Len(used)))
\* A set has just evicted from a cache of two or more entries in which an
\* earlier get-hit had changed which entry is the oldest.
C7_Witness ==
    /\ analysis_cache # None
    /\ last_call.op = "set" /\ last_call.evicted
    /\ analysis_cache.max_size >= 2
    /\ analysis_cache.hit_count > 0
    /\ Len(used) > analysis_cache.max_size

\* C8: after any sequence of get, set, clear, get_analysis and set_analysis
\* calls the number of stored entries is at most max_size.
C8_SizeBounded ==
    analysis_cache # None => Len(analysis_cache.cache) <= analysis_cache.max_size
\* A full cache, just after set_analysis stored a new key in it.
C8_Witness ==
    /\ analysis_cache # None
    /\ last_call.op = "set_analysis" /\ last_call.evicted
    /\ Len(analysis_cache.cache) = analysis_cache.max_size

\* C10: for one repository and branch, two selections that list the same agent
\* identifiers in any order address the same cache entry (both miss, or both
\* hit the entry at the same place), and two selections with different sets of
\* identifiers never address the same entry.
C10_OrderInsensitiveKey ==
    analysis_cache # None =>
        \A r \in Repos, b \in Branches, s1 \in CacheSelections, s2 \in CacheSelections :
            LET p1 == Position(analysis_cache.cache, CacheKey(r, b, s1))
                p2 == Position(analysis_cache.cache, CacheKey(r, b, s2))
            IN  /\ IsPermutation(s1, s2) =>
                       /\ p1 = p2
                       /\ AnalysisCache_get_analysis(analysis_cache, r, b, s1).value
                            = AnalysisCache_get_analysis(analysis_cache, r, b, s2).value
                /\ Range(s1) # Range(s2) => (p1 = 0 \/ p1 # p2)
\* get_analysis has just hit an entry that set_analysis stored under the same
\* identifiers in another order, while the entry of another selection is there.
C10_Witness ==
    /\ analysis_cache # None
    /\ last_call.op = "get_analysis" /\ last_call.hit
    /\ LET top == analysis_cache.cache[Len(analysis_cache.cache)]
       IN  /\ top.value.selected_agents # last_call.selected_agents
           /\ IsPermutation(top.value.selected_agents, last_call.selected_agents)
    /\ Len(analysis_cache.cache) >= 2

\* ===================================================== the cache, several threads
\* The web application serves requests on threads that share the module-level
\* analysis_cache (core.py 356, web_app.py 258 and 287); AnalysisCache takes no
\* lock.  A thread runs get or set one statement at a time, and another thread
\* may run between any two statements.
Threads == 1 .. MaxThreads
ThreadKeys == {CacheKey(<<"r">>, <<"m">>, sel) : sel \in {<<<<"1">>>>, <<<<"2">>>>}}
ThreadValue == [selected_agents |-> << >>]
NoFrame ==
    [op |-> "none", key |-> << >>, value |-> None, oldest_key |-> << >>,
     present |-> FALSE, evicted |-> FALSE, result |-> None]
AtRest(t) == pc[t] \in {"idle", "returned", "raised"}
InGet(t) == pc[t] \in {"get_test", "get_pop", "get_insert", "get_hit", "get_miss"}

\* self.cache[key] = value on an OrderedDict: a key already there keeps its place.
SetItem(cache, key, value) ==
    IF KeyIn(cache, key)
    THEN [i \in 1 .. Len(cache) |->
             IF cache[i].key = key THEN Entry(key, value) ELSE cache[i]]
    ELSE Append(cache, Entry(key, value))
\* Another thread's eviction of `key` is noted in the frames of the gets under way.
NoteEviction(frames, key) ==
    [t \in Threads |->
        IF frames[t].op = "get" /\ frames[t].key = key
        THEN [frames[t] EXCEPT !.evicted = TRUE] ELSE frames[t]]

InitThreads ==
    /\ \E n \in 1 .. MaxSize : analysis_cache = AnalysisCache_init(n)
    /\ used = << >>
    /\ last_call = Idle
    /\ pc = [t \in Threads |-> "idle"]
    /\ frame = [t \in Threads |-> NoFrame]
    /\ AgentsUnused /\ GradeUnused /\ JudgeUnused

Rest == <<agentVars, gradeVars, used, last_call, judgeVars>>

\* A request thread calls get(key).
ThreadCallGet(t) ==
    \E key \in ThreadKeys :
        /\ AtRest(t)
        /\ analysis_cache.hit_count + analysis_cache.miss_count
             + Cardinality({u \in Threads : InGet(u)}) < MaxLookups
        /\ pc' = [pc EXCEPT ![t] = "get_test"]
        /\ frame' = [frame EXCEPT ![t] =
                        [NoFrame EXCEPT !.op = "get", !.key = key,
                                        !.present = KeyIn(analysis_cache.cache, key)]]
        /\ UNCHANGED <<analysis_cache, Rest>>
\* line 174: if key in self.cache
GetTest(t) ==
    /\ pc[t] = "get_test"
    /\ pc' = [pc EXCEPT ![t] = IF KeyIn(analysis_cache.cache, frame[t].key)
                               THEN "get_pop" ELSE "get_miss"]
    /\ UNCHANGED <<analysis_cache, frame, Rest>>
\* line 176: value = self.cache.pop(key), a KeyError when the key has gone
GetPop(t) ==
    /\ pc[t] = "get_pop"
    /\ IF KeyIn(analysis_cache.cache, frame[t].key)
       THEN /\ analysis_cache' =
                   [analysis_cache EXCEPT !.cache = Pop(@, frame[t].key)]
            /\ frame' = [frame EXCEPT ![t].value =
                            ValueOf(analysis_cache.cache, frame[t].key)]
            /\ pc' = [pc EXCEPT ![t] = "get_insert"]
       ELSE /\ pc' = [pc EXCEPT ![t] = "raised"]
            /\ UNCHANGED <<analysis_cache, frame>>
    /\ UNCHANGED Rest
\* line 177: self.cache[key] = value
GetInsert(t) ==
    /\ pc[t] = "get_insert"
    /\ analysis_cache' =
           [analysis_cache EXCEPT !.cache = SetItem(@, frame[t].key, frame[t].value)]
    /\ pc' = [pc EXCEPT ![t] = "get_hit"]
    /\ UNCHANGED <<frame, Rest>>
\* lines 178-180: self.hit_count += 1; return value
GetHit(t) ==
    /\ pc[t] = "get_hit"
    /\ analysis_cache' = [analysis_cache EXCEPT !.hit_count = @ + 1]
    /\ frame' = [frame EXCEPT ![t].result = frame[t].value]
    /\ pc' = [pc EXCEPT ![t] = "returned"]
    /\ UNCHANGED Rest
\* lines 182-184: self.miss_count += 1; return None
GetMiss(t) ==
    /\ pc[t] = "get_miss"
    /\ analysis_cache' = [analysis_cache EXCEPT !.miss_count = @ + 1]
    /\ frame' = [frame EXCEPT ![t].result = None]
    /\ pc' = [pc EXCEPT ![t] = "returned"]
    /\ UNCHANGED Rest

\* A request thread calls set(key, value).
ThreadCallSet(t) ==
    \E key \in ThreadKeys :
        /\ AtRest(t)
        /\ pc' = [pc EXCEPT ![t] = "set_test"]
        /\ frame' = [frame EXCEPT ![t] =
                        [NoFrame EXCEPT !.op = "set", !.key = key,
                                        !.value = ThreadValue]]
        /\ UNCHANGED <<analysis_cache, Rest>>
\* line 188: if key in self.cache
SetTest(t) ==
    /\ pc[t] = "set_test"
    /\ pc' = [pc EXCEPT ![t] = IF KeyIn(analysis_cache.cache, frame[t].key)
                               THEN "set_pop" ELSE "set_len"]
    /\ UNCHANGED <<analysis_cache, frame, Rest>>
\* line 190: self.cache.pop(key), a KeyError when the key has gone
SetPop(t) ==
    /\ pc[t] = "set_pop"
    /\ IF KeyIn(analysis_cache.cache, frame[t].key)
       THEN /\ analysis_cache' =
                   [analysis_cache EXCEPT !.cache = Pop(@, frame[t].key)]
            /\ pc' = [pc EXCEPT ![t] = "set_insert"]
       ELSE /\ pc' = [pc EXCEPT ![t] = "raised"]
            /\ UNCHANGED analysis_cache
    /\ UNCHANGED <<frame, Rest>>
\* line 191: elif len(self.cache) >= self.max_size
SetLen(t) ==
    /\ pc[t] = "set_len"
    /\ pc' = [pc EXCEPT ![t] = IF Len(analysis_cache.cache) >= analysis_cache.max_size
                               THEN "set_oldest" ELSE "set_insert"]
    /\ UNCHANGED <<analysis_cache, frame, Rest>>
\* line 193: oldest_key = next(iter(self.cache)), StopIteration on an empty cache
SetOldest(t) ==
    /\ pc[t] = "set_oldest"
    /\ IF analysis_cache.cache # << >>
       THEN /\ frame' = [frame EXCEPT ![t].oldest_key = Head(analysis_cache.cache).key]
            /\ pc' = [pc EXCEPT ![t] = "set_evict"]
       ELSE /\ pc' = [pc EXCEPT ![t] = "raised"]
            /\ UNCHANGED frame
    /\ UNCHANGED <<analysis_cache, Rest>>
\* line 194: self.cache.pop(oldest_key), a KeyError when the key has gone
SetEvict(t) ==
    /\ pc[t] = "set_evict"
    /\ IF KeyIn(analysis_cache.cache, frame[t].oldest_key)
       THEN /\ analysis_cache' =
                   [analysis_cache EXCEPT !.cache = Pop(@, frame[t].oldest_key)]
            /\ frame' = NoteEviction(frame, frame[t].oldest_key)
            /\ pc' = [pc EXCEPT ![t] = "set_insert"]
       ELSE /\ pc' = [pc EXCEPT ![t] = "raised"]
            /\ UNCHANGED <<analysis_cache, frame>>
    /\ UNCHANGED Rest
\* line 197: self.cache[key] = value
SetInsert(t) ==
    /\ pc[t] = "set_insert"
    /\ analysis_cache' =
           [analysis_cache EXCEPT !.cache = SetItem(@, frame[t].key, frame[t].value)]
    /\ pc' = [pc EXCEPT ![t] = "returned"]
    /\ UNCHANGED <<frame, Rest>>

NextThreads ==
    \E t \in Threads :
        \/ ThreadCallGet(t)
        \/ GetTest(t)
        \/ GetPop(t)
        \/ GetInsert(t)
        \/ GetHit(t)
        \/ GetMiss(t)
        \/ ThreadCallSet(t)
        \/ SetTest(t)
        \/ SetPop(t)
        \/ SetLen(t)
        \/ SetOldest(t)
        \/ SetEvict(t)
        \/ SetInsert(t)
SpecThreads == InitThreads /\ [][NextThreads]_vars

\* C9: concurrent get and set calls behave as if serialized.  In every state of
\* every interleaving the cache holds at most max_size entries, no call has
\* raised, and no get is about to report a miss for a key that was in the cache
\* when the call began and that no set has evicted since.
C9_SizeBounded ==
    Len(analysis_cache.cache) <= analysis_cache.max_size
C9_NoCallRaises ==
    \A t \in Threads : pc[t] # "raised"
C9_NoTornRead ==
    \A t \in Threads :
        pc[t] = "get_miss" => ~(frame[t].present /\ ~frame[t].evicted)
C9_Serialized ==
    analysis_cache # None =>
        C9_SizeBounded /\ C9_NoCallRaises /\ C9_NoTornRead
\* Two threads are inside a call at the same time.
C9_Witness ==
    /\ pc # << >>
    /\ \E t, u \in Threads : t # u /\ ~AtRest(t) /\ ~AtRest(u)

\* ============================================================ the nine agents
\* What each agent's analyze is fed: the results of its sub-analyses (or the
\* inputs its extraction step produced) over every combination of findings.
Flags == BOOLEAN
Counts == 0 .. MaxCount

CodeInputs ==
    {f \in [code_files : 0 .. 1, good : Counts, bad : Counts, unique_bad : 0 .. 3,
            security : 0 .. 1, perf : 0 .. 1, test_files : 0 .. 1,
            test_results : TestResultKinds, readme : ReadmeKinds,
            doc_files : {0, 2}] :
        /\ f.unique_bad >= B(f.bad > 0) /\ f.unique_bad <= Min(f.bad, 3)
        /\ f.code_files = 0 => (f.security = 0 /\ f.perf = 0)}
CodeAnalyses == {CodeAnalysisAgent_analyze(f) : f \in CodeInputs}

TieredResults == {Tiered(n) : n \in Counts}
PatternResults ==
    {_analyze_design_patterns(found, _analyze_layer_separation(layers),
                              _analyze_data_flow(data, control), readme_arch) :
        found \in 0 .. 1, layers \in Counts, data \in Counts, control \in Counts,
        readme_arch \in Flags}
ScalabilityResults ==
    {_analyze_scalability(_analyze_scalability_design(h, v), c, a, l,
                          cfg, docker, ci, perf_notes) :
        h \in Counts, v \in Counts, c \in TieredResults, a \in TieredResults,
        l \in TieredResults, cfg \in Flags, docker \in Flags, ci \in Flags,
        perf_notes \in Flags}
SecurityArchitectureResults ==
    {_analyze_security_architecture(found, env, sast) :
        found \in Flags, env \in Flags, sast \in Flags}
AlignmentResults ==
    {_analyze_code_architecture_alignment(_check_architectural_consistency(c),
                                          _check_implementation_gaps(g)) :
        c \in 0 .. 4, g \in 0 .. 6}
ArchitectureInputs ==
    [structure : {_analyze_structure(n) : n \in Counts}, patterns : PatternResults,
     scalability : ScalabilityResults, security : SecurityArchitectureResults,
     alignment : AlignmentResults]
ArchitectureAnalyses == {ArchitectureAgent_analyze(f) : f \in ArchitectureInputs}

ExecutionResults ==
    {UIUXAgent_analyze_ui_execution(kind, q, shots, issues) :
        kind \in {"none", "failed", "raised", "ran"},
        q \in [1 .. 4 -> ExecutionBuckets], shots \in Flags, issues \in Flags}
UIUXInputs ==
    [ui : {_analyze_ui_files(n, r, v, a, c, w) :
              n \in 0 .. 1, r \in Flags, v \in Flags, a \in Flags, c \in Flags,
              w \in Flags},
     a11y : {_analyze_accessibility(found, notes) : found \in Flags, notes \in Flags},
     responsive : {_analyze_responsive_design(c, m) : c \in 0 .. 1, m \in 0 .. 1},
     demo : {_analyze_demo(d) : d \in Flags},
     execution : ExecutionResults]
UIUXAnalyses == {UIUXAgent_analyze(f) : f \in UIUXInputs}

SecurityInputs ==
    [secrets : {_analyze_secrets_management(e, g) : e \in Flags, g \in Flags},
     deps : {_analyze_dependencies(found, sast) : found \in Flags, sast \in SastKinds},
     validation : {_analyze_input_validation(v) : v \in Flags},
     auth : {_analyze_authentication(a) : a \in Flags}]
SecurityAnalyses == {SecurityAgent_analyze(f) : f \in SecurityInputs}

InnovationInputs ==
    [project_summary : Flags, features_list : 0 .. 3 * MaxCount,
     tech_stack : 0 .. 3 * MaxCount]
InnovationAnalyses == {InnovationCreativityAgent_analyze(f) : f \in InnovationInputs}

FunctionalityInputs ==
    [features_list : 0 .. 3 * MaxCount, user_flows : Flags, demo_reference : Flags,
     api_endpoints : Flags, test_summary : Flags]
FunctionalityAnalyses ==
    {FunctionalityCompletenessAgent_analyze(f) : f \in FunctionalityInputs}

TechnicalInputs ==
    {f \in [tech_stack : 0 .. 2 * MaxCount, architecture_notes : Flags,
            data_flows : Flags, performance_signals : 0 .. 1,
            security_signals : 0 .. 1, distinct_signals : 0 .. 2 * MaxCount + 2] :
        /\ f.distinct_signals <= f.tech_stack + f.performance_signals + f.security_signals
        /\ f.distinct_signals >= B(f.tech_stack + f.performance_signals
                                     + f.security_signals > 0)}
TechnicalAnalyses == {TechnicalComplexityAgent_analyze(f) : f \in TechnicalInputs}

PolishInputs ==
    [screenshots : Counts, ui_routes : Flags, brand_notes : Flags, copy_examples : Flags]
PolishAnalyses == {UIUXPolishAgent_analyze(f) : f \in PolishInputs}

\* The feature vectors _extract_features can produce, by the classes of file
\* count its consumers tell apart: a tree without files has none of the
\* file properties.  Python stands for a technology detected from a file
\* name, React for one detected from the README.
TechnologyStacks == {{}, {"Python"}, {"Python", "React"}}
Patterns == {"MVC"}
LearningFeatures ==
    {f \in [file_count : {0, 1, 11, 51}, code_file_count : {0, 1, 11, 51},
            has_tests : Flags, has_docs : Flags, config_file_count : 0 .. 1,
            has_dockerfile : Flags, has_ci_cd : Flags, security_files : 0 .. 1,
            technology_stack : TechnologyStacks,
            architecture_patterns : SUBSET Patterns, has_readme : Flags] :
        /\ f.code_file_count \in {0, f.file_count}
        /\ "React" \in f.technology_stack => f.has_readme
        /\ f.file_count = 0 =>
               /\ ~f.has_tests /\ ~f.has_docs /\ ~f.has_dockerfile /\ ~f.has_ci_cd
               /\ f.config_file_count = 0 /\ f.security_files = 0}

Named(agent_name, r) ==
    [agent_name |-> agent_name, score |-> r.score, confidence |-> r.confidence,
     risks |-> r.risks]

InitAgents ==
    /\ analysis = None
    /\ learning = FreshLearning
    /\ LearnUnused
    /\ GradeUnused /\ CacheUnused /\ ThreadsUnused /\ JudgeUnused

Others == <<gradeVars, cacheVars, threadVars, judgeVars, learnVars>>
AnalyzeCode ==
    /\ analysis = None
    /\ \E r \in CodeAnalyses : analysis' = Named("code", r)
    /\ UNCHANGED <<learning, Others>>
AnalyzeArchitecture ==
    /\ analysis = None
    /\ \E r \in ArchitectureAnalyses : analysis' = Named("architecture", r)
    /\ UNCHANGED <<learning, Others>>
AnalyzeUIUX ==
    /\ analysis = None
    /\ \E r \in UIUXAnalyses : analysis' = Named("ui_ux", r)
    /\ UNCHANGED <<learning, Others>>
AnalyzeSecurity ==
    /\ analysis = None
    /\ \E r \in SecurityAnalyses : analysis' = Named("security", r)
    /\ UNCHANGED <<learning, Others>>
AnalyzeInnovation ==
    /\ analysis = None
    /\ \E r \in InnovationAnalyses : analysis' = Named("innovation", r)
    /\ UNCHANGED <<learning, Others>>
AnalyzeFunctionality ==
    /\ analysis = None
    /\ \E r \in FunctionalityAnalyses : analysis' = Named("functionality", r)
    /\ UNCHANGED <<learning, Others>>
AnalyzeTechnical ==
    /\ analysis = None
    /\ \E r \in TechnicalAnalyses : analysis' = Named("technical", r)
    /\ UNCHANGED <<learning, Others>>
AnalyzePolish ==
    /\ analysis = None
    /\ \E r \in PolishAnalyses : analysis' = Named("ui_ux_polish", r)
    /\ UNCHANGED <<learning, Others>>
\* LearningAgent.analyze returns its verdict and updates its memory.
AnalyzeLearning ==
    /\ analysis = None
    /\ learning.learning_data <= MaxHistory
    /\ \E features \in LearningFeatures :
          /\ analysis' = Named("learning", LearningAgent_analyze(learning, features))
          /\ learning' = LearningAgent_after(learning, features)
    /\ UNCHANGED Others
\* The caller takes the result.
Return ==
    /\ analysis # None
    /\ analysis' = None
    /\ UNCHANGED <<learning, Others>>

NextAgents ==
    \/ AnalyzeCode
    \/ AnalyzeArchitecture
    \/ AnalyzeUIUX
    \/ AnalyzeSecurity
    \/ AnalyzeInnovation
    \/ AnalyzeFunctionality
    \/ AnalyzeTechnical
    \/ AnalyzePolish
    \/ AnalyzeLearning
    \/ Return
SpecAgents == InitAgents /\ [][NextAgents]_vars

\* C3: whatever agent ran, whatever it was fed, and whatever the Learning agent
\* had been through before, the score it returns is a whole number from 0 to 10
\* and its confidence lies between 0.0 and 1.0.
C3_ScoreAndConfidenceInRange ==
    analysis # None =>
        /\ analysis.score \in 0 .. 10
        /\ analysis.confidence >= 0 /\ analysis.confidence <= ConfScale
\* The Learning agent, two or more calls in, has returned the top score.
C3_Witness ==
    /\ analysis # None
    /\ analysis.agent_name = "learning"
    /\ learning.learning_data >= 3
    /\ analysis.score = 10

\* ================================================ the grading request (Spec)
\* The repositories a request is run on: file_tree is [] or one file m1.py,
\* the README is '' or 'A small app.', artifacts is {} or
\* {'screenshots_or_demo': 'demo.png'}; the optional UI renderer is not
\* installed (self.ui_renderer is None).  What follows is what each agent's
\* own extraction makes of such a repository.
Contexts == [code_file : Flags, readme : Flags, demo : Flags]
\* The repository with an empty file tree, an empty README and no artifacts.
EmptyContext == [code_file |-> FALSE, readme |-> FALSE, demo |-> FALSE]

CodeFeatures(ctx) ==
    [code_files |-> B(ctx.code_file), good |-> 0, bad |-> 0, unique_bad |-> 0,
     security |-> 0, perf |-> 0, test_files |-> 0, test_results |-> "none",
     readme |-> IF ctx.readme THEN "plain" ELSE "empty", doc_files |-> 0]
ArchitectureFeatures(ctx) ==
    [structure |-> _analyze_structure(0),
     patterns |-> _analyze_design_patterns(0, _analyze_layer_separation(0),
                                           _analyze_data_flow(0, 0), FALSE),
     scalability |-> _analyze_scalability(_analyze_scalability_design(0, 0),
                                          Tiered(0), Tiered(0), Tiered(0),
                                          FALSE, FALSE, FALSE, FALSE),
     security |-> _analyze_security_architecture(FALSE, FALSE, FALSE),
     alignment |-> _analyze_code_architecture_alignment(
                       _check_architectural_consistency(0),
                       _check_implementation_gaps(0))]
UIUXFeatures(ctx) ==
    [ui |-> _analyze_ui_files(0, FALSE, FALSE, FALSE, FALSE, FALSE),
     a11y |-> _analyze_accessibility(FALSE, FALSE),
     responsive |-> _analyze_responsive_design(0, 0),
     demo |-> _analyze_demo(ctx.demo),
     execution |-> UIUXAgent_analyze_ui_execution("none", [i \in 1 .. 4 |-> 0],
                                                  FALSE, FALSE)]
SecurityFeatures(ctx) ==
    [secrets |-> _analyze_secrets_management(FALSE, FALSE),
     deps |-> _analyze_dependencies(FALSE, "none"),
     validation |-> _analyze_input_validation(FALSE),
     auth |-> _analyze_authentication(FALSE)]
InnovationFeatures(ctx) ==
    [project_summary |-> ctx.readme, features_list |-> 0,
     tech_stack |-> B(ctx.code_file)]
FunctionalityFeatures(ctx) ==
    [features_list |-> 0, user_flows |-> FALSE, demo_reference |-> ctx.demo,
     api_endpoints |-> FALSE, test_summary |-> FALSE]
TechnicalFeatures(ctx) ==
    [tech_stack |-> B(ctx.code_file), architecture_notes |-> FALSE,
     data_flows |-> FALSE, performance_signals |-> 0, security_signals |-> 0,
     distinct_signals |-> B(ctx.code_file)]
PolishFeatures(ctx) ==
    [screenshots |-> B(ctx.demo), ui_routes |-> FALSE, brand_notes |-> FALSE,
     copy_examples |-> FALSE]
_extract_features(ctx) ==
    [file_count |-> B(ctx.code_file), code_file_count |-> B(ctx.code_file),
     has_tests |-> FALSE, has_docs |-> FALSE, config_file_count |-> 0,
     has_dockerfile |-> FALSE, has_ci_cd |-> FALSE, security_files |-> 0,
     technology_stack |-> IF ctx.code_file THEN {"Python"} ELSE {},
     architecture_patterns |-> {}, has_readme |-> ctx.readme]

\* agent.analyze(context) for the agent registered under agent_name.
AgentAnalyze(agent_name, ctx, memory) ==
    CASE agent_name = "code" -> CodeAnalysisAgent_analyze(CodeFeatures(ctx))
      [] agent_name = "architecture" -> ArchitectureAgent_analyze(ArchitectureFeatures(ctx))
      [] agent_name = "ui_ux" -> UIUXAgent_analyze(UIUXFeatures(ctx))
      [] agent_name = "security" -> SecurityAgent_analyze(SecurityFeatures(ctx))
      [] agent_name = "innovation" ->
             InnovationCreativityAgent_analyze(InnovationFeatures(ctx))
      [] agent_name = "functionality" ->
             FunctionalityCompletenessAgent_analyze(FunctionalityFeatures(ctx))
      [] agent_name = "technical" ->
             TechnicalComplexityAgent_analyze(TechnicalFeatures(ctx))
      [] agent_name = "ui_ux_polish" -> UIUXPolishAgent_analyze(PolishFeatures(ctx))
      [] OTHER -> LearningAgent_analyze(memory, _extract_features(ctx))

\* ------------------------------------- AgentOrchestrator (lines 4195-4323)
\* self.agents, in construction order.
AgentNames ==
    <<"code", "architecture", "ui_ux", "security", "innovation", "functionality",
      "technical", "ui_ux_polish", "learning">>
AgentIds == <<"1", "2", "3", "4", "5", "6", "7", "8", "9">>
\* An identifier agent_mapping does not know.
UnknownId == "x"
agent_mapping(num) ==
    CASE num = "1" -> "code" [] num = "2" -> "architecture" [] num = "3" -> "ui_ux"
      [] num = "4" -> "security" [] num = "5" -> "innovation"
      [] num = "6" -> "functionality" [] num = "7" -> "technical"
      [] num = "8" -> "ui_ux_polish" [] num = "9" -> "learning"
      [] OTHER -> "none"
\* selected_agents is a list of identifiers; None and [] take the same
\* branches everywhere (lines 4226, ai_grader.py 57 and 101) and are both << >>.
NoSelection == << >>
\* A filter that would follow the list it is given: one run per identifier
\* supplied, in the order supplied.
agents_to_run_as_listed(selection) ==
    IF selection = NoSelection THEN AgentNames
    ELSE LET Known(num) == agent_mapping(num) # "none"
             known == SelectSeq(selection, Known)
         IN  [i \in 1 .. Len(known) |-> agent_mapping(known[i])]
agents_to_run(selection) ==
    IF selection = NoSelection THEN AgentNames
    ELSE LET selected_agent_names == {agent_mapping(selection[i]) : i \in 1 .. Len(selection)}
             Selected(name) == name \in selected_agent_names
         IN  SelectSeq(AgentNames, Selected)

\* The entries of a result's risks list.
Risk(agent_name, k) == [agent |-> agent_name, failure |-> FALSE, k |-> k]
AgentFailed(agent_name) == [agent |-> agent_name, failure |-> TRUE, k |-> 1]
Result(agent_name, r) ==
    [agent_name |-> agent_name, score |-> r.score, confidence |-> r.confidence,
     risks |-> [k \in 1 .. r.risks |-> Risk(agent_name, k)]]
\* The except branch, lines 4249-4260.
FailedResult(agent_name) ==
    [agent_name |-> agent_name, score |-> 0, confidence |-> 0,
     risks |-> <<AgentFailed(agent_name)>>]

\* The loop of lines 4245-4260 over agents_to_run: raising is the set of
\* agents whose analyze raises.
RECURSIVE RunAgentsAbort(_, _, _, _)
RunAgentsAbort(names, ctx, raising, memory) ==
    IF names = << >> THEN << >>
    ELSE IF Head(names) \in raising THEN <<FailedResult(Head(names))>>
    ELSE <<Result(Head(names), AgentAnalyze(Head(names), ctx, memory))>>
           \o RunAgentsAbort(Tail(names), ctx, raising, memory)
RECURSIVE RunAgents(_, _, _, _)
RunAgents(names, ctx, raising, memory) ==
    IF names = << >> THEN << >>
    ELSE <<IF Head(names) \in raising THEN FailedResult(Head(names))
           ELSE Result(Head(names), AgentAnalyze(Head(names), ctx, memory))>>
           \o RunAgents(Tail(names), ctx, raising, memory)

\* _combine_agent_results, lines 4274-4323.  total_score is kept in tenths:
\* round(final_score, 1).
RisksCap == 10
RECURSIVE WeightedSum(_)
WeightedSum(results) ==
    IF results = << >> THEN 0
    ELSE Head(results).score * Head(results).confidence + WeightedSum(Tail(results))
RECURSIVE WeightSum(_)
WeightSum(results) ==
    IF results = << >> THEN 0
    ELSE Head(results).confidence + WeightSum(Tail(results))
RECURSIVE AllRisks(_)
AllRisks(results) ==
    IF results = << >> THEN << >>
    ELSE Head(results).risks \o AllRisks(Tail(results))
Verdict(results, total_score) ==
    [total_score |-> total_score,
     agent_scores |-> [i \in 1 .. Len(results) |->
                          <<results[i].agent_name, results[i].score>>],
     confidence_scores |-> [i \in 1 .. Len(results) |->
                               <<results[i].agent_name, results[i].confidence>>],
     risks |-> SubSeq(AllRisks(results), 1, Min(RisksCap, Len(AllRisks(results)))),
     agent_count |-> Len(results)]
\* Two ways to get it wrong: the plain mean of the scores, and a neutral
\* default when nothing carries weight.
_combine_agent_results_unweighted(results) ==
    Verdict(results,
            IF results # << >>
            THEN RoundHalfEven(10 * WeightedSum([i \in 1 .. Len(results) |->
                                   [results[i] EXCEPT !.confidence = 1]]),
                               Len(results))
            ELSE 0)
_combine_agent_results_default(results) ==
    Verdict(results,
            IF WeightSum(results) > 0
            THEN RoundHalfEven(10 * WeightedSum(results), WeightSum(results))
            ELSE 50)
_combine_agent_results(results) ==
    Verdict(results,
            IF WeightSum(results) > 0
            THEN RoundHalfEven(10 * WeightedSum(results), WeightSum(results))
            ELSE 0)

\* analyze, lines 4220-4272: the results of the run, what is returned, and the
\* Learning agent's memory afterwards (it changes only when that agent ran to
\* the end).
analyze(ctx, selection, raising, memory) ==
    LET names == agents_to_run(selection)
        results == RunAgents(names, ctx, raising, memory)
        learned == \E i \in 1 .. Len(names) :
                       names[i] = "learning" /\ names[i] \notin raising
    IN  [agent_results |-> results,
         combined_result |-> _combine_agent_results(results),
         learning |-> IF learned
                      THEN LearningAgent_after(memory, _extract_features(ctx))
                      ELSE memory]

\* ---------------------------------------- AIGrader (src/ai_grader.py 36-405)
RECURSIVE SumScores(_)
SumScores(agent_scores) ==
    IF agent_scores = << >> THEN 0
    ELSE Head(agent_scores)[2] + SumScores(Tail(agent_scores))
\* lines 150-175
weighted_total(agent_scores) ==
    IF agent_scores # << >>
    THEN RoundHalfEven(SumScores(agent_scores), Len(agent_scores))
    ELSE 5
\* lines 236-242
pass_fail(total) ==
    IF total >= 7 THEN "pass" ELSE IF total >= 5 THEN "borderline" ELSE "fail"
\* JudgeConfig.default_weights, src/judge_config.py 16-26: a dict is the
\* sequence of its <<key, value>> items in insertion order.
default_weights ==
    <<<<"code_analysis", 20>>, <<"architecture", 15>>, <<"ui_ux", 15>>,
      <<"security", 10>>, <<"innovation", 15>>, <<"functionality", 15>>,
      <<"technical", 10>>, <<"ui_ux_polish", 0>>, <<"learning", 0>>>>
\* The config file before the program first runs: absent, or written by hand.
ConfigFiles ==
    {None,
     [weights |-> <<<<"code_analysis", 60>>, <<"architecture", 40>>>>,
      total_percentage |-> 100]}
DefaultsId == 1
\* dict.get(key, default) on a dict kept as its items.
Lookup(dict, key, default) ==
    IF \E i \in 1 .. Len(dict) : dict[i][1] = key
    THEN dict[CHOOSE i \in 1 .. Len(dict) : dict[i][1] = key][2]
    ELSE default
\* The breakdown, lines 251-377: four if / elif pairs, each adding one
\* category.  judge_weights is judge_config.get_weights(), None for a grader
\* without a judge_config.  The items are in insertion order.
breakdown(agent_scores, agent_confidence, judge_weights) ==
    LET Has(name) == \E i \in 1 .. Len(agent_scores) : agent_scores[i][1] = name
        total_agents == Len(agent_scores)
        weight_per_agent == IF total_agents > 0 THEN 100 \div total_agents ELSE 25
        Weight(key) == IF judge_weights # None
                       THEN Lookup(judge_weights, key, weight_per_agent)
                       ELSE weight_per_agent
        Category(category, name, key) ==
            <<category, [score |-> Lookup(agent_scores, name, 5),
                         weight |-> Weight(key),
                         ai_confidence |-> Lookup(agent_confidence, name,
                                                  ConfScale \div 2)]>>
    IN  (IF Has("ui_ux_polish")
         THEN <<Category("ui_ux_polish", "ui_ux_polish", "ui_ux_polish")>>
         ELSE IF Has("ui_ux") THEN <<Category("ui", "ui_ux", "ui_ux")>> ELSE << >>)
        \o (IF Has("technical")
            THEN <<Category("technical_complexity", "technical", "technical")>>
            ELSE IF Has("architecture")
            THEN <<Category("architecture", "architecture", "architecture")>>
            ELSE << >>)
        \o (IF Has("code")
            THEN <<Category("code_analysis", "code", "code_analysis")>>
            ELSE IF Has("functionality")
            THEN <<Category("functionality", "functionality", "functionality")>>
            ELSE << >>)
        \o (IF Has("innovation")
            THEN <<Category("innovation", "innovation", "innovation")>>
            ELSE IF Has("security")
            THEN <<Category("security", "security", "security")>>
            ELSE << >>)
\* _map_ai_results_to_grades, lines 118-405, reduced to the fields that carry
\* the verdict.
_map_ai_results_to_grades(results, selection, judge_weights) ==
    [error |-> FALSE,
     total_score |-> weighted_total(results.agent_scores),
     pass_fail |-> pass_fail(weighted_total(results.agent_scores)),
     selected_agents |-> selection,
     agent_scores |-> results.agent_scores,
     confidence_scores |-> results.confidence_scores,
     breakdown |-> breakdown(results.agent_scores, results.confidence_scores,
                             judge_weights)]
\* The except branch of grade, lines 109-116.
FailureResult ==
    [error |-> TRUE, total_score |-> 0, pass_fail |-> "fail",
     selected_agents |-> << >>, agent_scores |-> << >>, confidence_scores |-> << >>,
     breakdown |-> << >>]

\* ------------------------------ GitHubAnalyzer (src/github_analyzer.py 25-69)
\* A URL is the sequence of its parts: the host, then the path with its
\* slashes.  RepoUrl names a repository on GitHub, OtherUrl one elsewhere, and
\* BareUrl is GitHub's host with no owner/repo path.
RepoUrl == <<"github.com", "/", "o", "/", "r">>
OtherUrl == <<"gitlab.com", "/", "o", "/", "r">>
BareUrl == <<"github.com">>
SiblingUrl == <<"github.com", "/", "o", "/", "s">>
\* 'github.com' in repo_url
NamesGitHub(url) == \E i \in 1 .. Len(url) : url[i] = "github.com"
\* len(parsed.path.strip('/').split('/')); a URL without a scheme is all path.
PathParts(url) == Cardinality({i \in 1 .. Len(url) : url[i] # "/"})
\* get_repo_info, lines 25-46: a ValueError for a URL that is not GitHub's or
\* has fewer than two path parts.
get_repo_info_raises(url) == ~NamesGitHub(url) \/ PathParts(url) < 2
\* get_file_tree and get_readme, lines 48-69: a failed fetch is caught inside
\* and gives [] or "".  github says which fetches fail.
GitHubConditions == {"up", "no tree", "no readme", "down"}
get_file_tree(repository, condition) ==
    repository.code_file /\ condition \notin {"no tree", "down"}
get_readme(repository, condition) ==
    repository.readme /\ condition \notin {"no readme", "down"}
Fetch(repository, condition) ==
    [code_file |-> get_file_tree(repository, condition),
     readme |-> get_readme(repository, condition),
     demo |-> repository.demo]

\* The request: a repository URL and branch; a selection that is absent, lists
\* any of '1'..'9' in ascending order, holds the unknown identifier 'x' alone
\* or next to '1', or lists identifiers out of order and twice; one of the
\* repositories behind the URL; and any set of agents whose analyze raises.
DefaultMaxSize == 100
Branch == <<"m">>
GradeSelections ==
    {LET Chosen(id) == id \in ids IN SelectSeq(AgentIds, Chosen) :
        ids \in SUBSET {AgentIds[i] : i \in 1 .. Len(AgentIds)}}
      \cup {<<UnknownId>>, <<"1", UnknownId>>, <<"3", "1">>, <<"9", "3", "9", "1">>}
AsStrings(selection) == [i \in 1 .. Len(selection) |-> <<selection[i]>>]

\* A new process with a new grader, and the URL and selection of the request
\* to come; GitHub answers every fetch.
Init ==
    /\ phase = "idle"
    /\ context = None
    /\ selected_agents \in GradeSelections
    /\ repo_url \in {RepoUrl, OtherUrl}
    /\ github = "up"
    /\ responses = << >>
    /\ failing = {}
    /\ agent_results = << >>
    /\ ai_results = None
    /\ final_results = None
    /\ learning = FreshLearning
    /\ LearnUnused
    /\ analysis = None
    /\ analysis_cache = AnalysisCache_init(DefaultMaxSize)
    /\ used = << >>
    /\ last_call = Idle
    /\ ThreadsUnused /\ JudgeUnused

\* AIGrader.grade(repo_url, branch, selected_agents=selected_agents), lines
\* 36-116, with the fetches, the orchestrator's analyze and the cache calls it
\* makes.
grade ==
    /\ phase = "idle"
    /\ \E repository \in Contexts :
       \E raising \in SUBSET Range(agents_to_run(selected_agents)) :
       \E key \in {CacheKey(repo_url, Branch, AsStrings(selected_agents))} :
       \E lookup \in {IF selected_agents # NoSelection
                      THEN AnalysisCache_get(analysis_cache, key)
                      ELSE [self |-> analysis_cache, value |-> None]} :
          /\ phase' = "graded"
          /\ UNCHANGED <<selected_agents, repo_url, github, responses, analysis,
                         last_call, threadVars, judgeVars, learnVars>>
          /\ IF lookup.value # None
             THEN /\ final_results' = lookup.value
                  /\ analysis_cache' = lookup.self
                  /\ used' = UsedAfterGet(key)
                  /\ UNCHANGED <<context, failing, agent_results, ai_results,
                                 learning>>
             ELSE IF get_repo_info_raises(repo_url)
             THEN /\ raising = {} /\ repository = EmptyContext
                  /\ final_results' = FailureResult
                  /\ analysis_cache' = lookup.self
                  /\ UNCHANGED <<context, failing, agent_results, ai_results,
                                 learning, used>>
             ELSE \E fetched \in {Fetch(repository, github)} :
                  \E run \in {analyze(fetched, selected_agents, raising, learning)} :
                  \E graded \in {_map_ai_results_to_grades(
                                     run.combined_result, selected_agents,
                                     IF judge = None THEN None
                                     ELSE heap[judge.weights])} :
                     /\ context' = fetched
                     /\ failing' = raising
                     /\ agent_results' = run.agent_results
                     /\ ai_results' = run.combined_result
                     /\ learning' = run.learning
                     /\ final_results' = graded
                     /\ IF selected_agents # NoSelection
                        THEN /\ analysis_cache' =
                                    AnalysisCache_set(lookup.self, key, graded)
                             /\ used' = Touch(used, key, graded)
                        ELSE /\ analysis_cache' = lookup.self
                             /\ used' = used

Next == grade
Spec == Init /\ [][Next]_vars

\* The same request while GitHub's answers may fail: a few selections, any of
\* the three URLs, and a grader with or without a JudgeConfig.
FetchSelections == {NoSelection, <<"1">>, <<"8", "9">>}
\* The grader was given a JudgeConfig, constructed on no config file or on a
\* hand-written one (JudgeConfig.__init__ and load_config, lines 14-39).
JudgeSupplied ==
    /\ config_file \in ConfigFiles
    /\ heap = IF config_file = None THEN <<default_weights>>
              ELSE <<default_weights, config_file.weights>>
    /\ judge = [default_weights |-> DefaultsId,
                weights |-> IF config_file = None THEN DefaultsId ELSE 2]
    /\ held = {}
    /\ judge_call = None
InitFetch ==
    /\ phase = "idle"
    /\ context = None
    /\ selected_agents \in FetchSelections
    /\ repo_url \in {RepoUrl, OtherUrl, BareUrl}
    /\ github \in GitHubConditions
    /\ responses = << >>
    /\ failing = {}
    /\ agent_results = << >>
    /\ ai_results = None
    /\ final_results = None
    /\ learning = FreshLearning
    /\ LearnUnused
    /\ analysis = None
    /\ analysis_cache = AnalysisCache_init(DefaultMaxSize)
    /\ used = << >>
    /\ last_call = Idle
    /\ ThreadsUnused
    /\ JudgeUnused \/ JudgeSupplied
NextFetch == grade
SpecFetch == InitFetch /\ [][NextFetch]_vars

\* ------------------------------------------------ claims about one request
\* The request went through the orchestrator: the fetch succeeded and
\* AgentOrchestrator.analyze returned ai_results.
Ran == phase = "graded" /\ ai_results # None
RunOrder == agents_to_run(selected_agents)

\* C1 (as the code has it): when the confidences of the participating agents
\* sum to more than 0, the total_score returned by AgentOrchestrator.analyze is
\* the confidence-weighted mean of their scores rounded to one decimal place:
\* it is a whole number of tenths at most half a tenth away from the mean.
C1_WeightedMeanToOneDecimal ==
    (Ran /\ WeightSum(agent_results) > 0) =>
        2 * Abs(10 * WeightedSum(agent_results)
                  - ai_results.total_score * WeightSum(agent_results))
            <= WeightSum(agent_results)
\* Several agents with different scores and different non-zero confidences
\* took part and the mean is not a whole number.
C1_Witness ==
    /\ Ran
    /\ \E i, j \in 1 .. Len(agent_results) :
          /\ agent_results[i].confidence > 0
          /\ agent_results[j].confidence > agent_results[i].confidence
          /\ agent_results[i].score # agent_results[j].score
    /\ ai_results.total_score % 10 # 0
\* C1 as stated: total_score is round(sum(score_i * confidence_i) /
\* sum(confidence_i)), the weighted mean rounded to the nearest integer.
C1_WeightedMeanToInteger ==
    (Ran /\ WeightSum(agent_results) > 0) =>
        /\ ai_results.total_score % 10 = 0
        /\ 2 * Abs(WeightedSum(agent_results)
                     - (ai_results.total_score \div 10) * WeightSum(agent_results))
              <= WeightSum(agent_results)

\* C2: when every participating agent has confidence 0, or no agent ran at
\* all, AgentOrchestrator.analyze returns a verdict whose total_score is 0 and
\* the request does not end in the error result.
C2_ZeroWeightGivesZero ==
    (phase = "graded" /\ context # None /\ WeightSum(agent_results) = 0) =>
        /\ ai_results # None
        /\ ai_results.total_score = 0
        /\ ai_results.agent_count = Len(agent_results)
        /\ ~final_results.error
\* Several agents were selected and every one of them raised.
C2_Witness ==
    /\ Ran
    /\ Len(agent_results) >= 2
    /\ failing = Range(RunOrder)
    /\ ai_results.total_score = 0
\* The other case of C2: the selection held only the unknown identifier.
C2_NoAgentRan ==
    /\ Ran
    /\ selected_agents = <<UnknownId>>
    /\ agent_results = << >>
    /\ ai_results.total_score = 0

\* C4: whichever selected agents raise, analyze returns a verdict in which
\* every selected agent appears once, in run order; a failing agent has score
\* 0 and confidence 0.0, every other agent has the score and confidence it has
\* when nobody fails, and the Learning agent has stored one analysis exactly
\* when it ran to the end.
C4_FailureIsolation ==
    Ran =>
        \E order \in {RunOrder} :
        \E unfailed \in {RunAgents(order, context, {}, FreshLearning)} :
           /\ Len(agent_results) = Len(order)
           /\ ai_results.agent_count = Len(order)
           /\ \A i \in 1 .. Len(order) :
                 /\ agent_results[i].agent_name = order[i]
                 /\ ai_results.agent_scores[i] = <<order[i], agent_results[i].score>>
                 /\ ai_results.confidence_scores[i] =
                        <<order[i], agent_results[i].confidence>>
                 /\ IF order[i] \in failing
                    THEN /\ agent_results[i].score = 0
                         /\ agent_results[i].confidence = 0
                    ELSE /\ agent_results[i].score = unfailed[i].score
                         /\ agent_results[i].confidence = unfailed[i].confidence
           /\ learning.learning_data =
                 IF "learning" \in Range(order) \ failing THEN 1 ELSE 0
\* An agent raised between two agents that did not, and the later one still
\* delivered a result with some confidence.
C4_Witness ==
    /\ Ran
    /\ \E i, j, k \in 1 .. Len(agent_results) :
          /\ i < j /\ j < k
          /\ RunOrder[i] \notin failing
          /\ RunOrder[j] \in failing
          /\ RunOrder[k] \notin failing
          /\ agent_results[i].confidence > 0
          /\ agent_results[k].confidence > 0
          /\ agent_results[k].score > 0

\* C5 as stated: if exactly one of the nine agents raises, the risks of the
\* verdict hold the entry "<agent>: Agent failed: <reason>" of that agent,
\* whichever agent it is and however many risks the others produced.
C5_FailedAgentNamedInRisks ==
    (Ran /\ Len(RunOrder) = 9 /\ Cardinality(failing) = 1) =>
        \A name \in failing :
            \E k \in 1 .. Len(ai_results.risks) :
                ai_results.risks[k] = AgentFailed(name)
\* One of the nine agents raised and its entry is among the risks.
C5_Witness ==
    /\ Ran /\ Len(RunOrder) = 9 /\ Cardinality(failing) = 1
    /\ \E k \in 1 .. Len(ai_results.risks) : ai_results.risks[k].failure

\* C6 as stated: the total_score of the verdict of AIGrader.grade is the value
\* the orchestrator computed for the run, the confidence-weighted mean, at
\* whatever precision it is read: the same tenths, those tenths rounded to an
\* integer, or the mean rounded to an integer.
C6_GradeTotalIsOrchestratorTotal ==
    Ran =>
        \/ 10 * final_results.total_score = ai_results.total_score
        \/ final_results.total_score = RoundHalfEven(ai_results.total_score, 10)
        \/ /\ WeightSum(agent_results) > 0
           /\ final_results.total_score =
                  RoundHalfEven(WeightedSum(agent_results), WeightSum(agent_results))
\* Two agents with different scores and confidences were graded.
C6_Witness ==
    /\ Ran
    /\ ~final_results.error
    /\ \E i, j \in 1 .. Len(agent_results) :
          /\ agent_results[i].confidence > agent_results[j].confidence
          /\ agent_results[j].confidence > 0
          /\ agent_results[i].score # agent_results[j].score

\* ================================== the judge's weights (src/judge_config.py)
\* A dict is the sequence of its <<key, value>> items in insertion order.
\* The module imports Dict, List, Optional, json and os (lines 7-9); these are
\* the global names its functions can use.
ModuleNames == {"Dict", "List", "Optional", "json", "os"}
\* sum(weights.values())
RECURSIVE SumValues(_)
SumValues(weights) ==
    IF weights = << >> THEN 0 ELSE Head(weights)[2] + SumValues(Tail(weights))
\* The messages, as the format string used and what is put in it.
Message(kind, criteria, amount) ==
    [kind |-> kind, criteria |-> criteria, amount |-> amount]
\* validate_weights, lines 56-67.
validate_weights_sum_only(weights) ==
    IF SumValues(weights) # 100
    THEN [ok |-> FALSE, message |-> Message("must sum to 100", "", SumValues(weights))]
    ELSE [ok |-> TRUE, message |-> Message("Valid configuration", "", 0)]
validate_weights(weights) ==
    IF SumValues(weights) # 100
    THEN [ok |-> FALSE, message |-> Message("must sum to 100", "", SumValues(weights))]
    ELSE IF \E i \in 1 .. Len(weights) : weights[i][2] < 0
    THEN LET first == CHOOSE i \in 1 .. Len(weights) :
                          /\ weights[i][2] < 0
                          /\ \A j \in 1 .. (i - 1) : weights[j][2] >= 0
         IN  [ok |-> FALSE,
              message |-> Message("cannot be negative", weights[first][1],
                                  weights[first][2])]
    ELSE [ok |-> TRUE, message |-> Message("Valid configuration", "", 0)]
\* save_config, lines 41-54: building the dict to write evaluates
\* pd.Timestamp.now(); a NameError there is caught and the file is not opened.
save_config(file, weights) ==
    IF "pd" \in ModuleNames
    THEN [ok |-> TRUE,
          config_file |-> [weights |-> weights,
                           total_percentage |-> SumValues(weights)]]
    ELSE [ok |-> FALSE, config_file |-> file]
\* set_weights(weights), lines 73-80: self is the JudgeConfig, objects the dicts
\* by identity, id the dict passed.
set_weights(self, objects, file, id) ==
    LET checked == validate_weights(objects[id])
    IN  IF checked.ok
        THEN [self |-> [self EXCEPT !.weights = id],
              config_file |-> save_config(file, objects[id]).config_file,
              ok |-> TRUE,
              message |-> Message("Configuration saved successfully", "", 0)]
        ELSE [self |-> self, config_file |-> file, ok |-> FALSE,
              message |-> checked.message]

\* What the caller puts into a dict it builds, and what it may store into one
\* later: sums of 99, 100 and 101, with and without a negative weight.
CallerWeights ==
    {<<<<"code_analysis", 50>>, <<"architecture", 50>>>>,
     <<<<"architecture", 100>>, <<"code_analysis", 0>>>>,
     <<<<"code_analysis", 49>>, <<"architecture", 50>>>>,
     <<<<"code_analysis", 51>>, <<"architecture", 50>>>>,
     <<<<"code_analysis", 101>>, <<"architecture", -1>>>>,
     <<<<"code_analysis", -1>>, <<"architecture", -1>>>>}
CallerValues == {-1, 50}
JudgeCall(op, arg, ok, message) ==
    [op |-> op, arg |-> arg, ok |-> ok, message |-> message]
NoMessage == Message("", "", 0)

\* JudgeConfig(config_file) on a new process: __init__ and load_config, lines
\* 14-39.  The dict of the defaults is object 1.
InitJudge ==
    /\ config_file \in ConfigFiles
    /\ heap = IF config_file = None THEN <<default_weights>>
              ELSE <<default_weights, config_file.weights>>
    /\ judge = [default_weights |-> DefaultsId,
                weights |-> IF config_file = None THEN DefaultsId ELSE 2]
    /\ held = {}
    /\ judge_call = JudgeCall("init", 0, TRUE, NoMessage)
    /\ AgentsUnused /\ GradeUnused /\ CacheUnused /\ ThreadsUnused
JudgeRest == <<agentVars, gradeVars, cacheVars, threadVars>>

\* The caller builds a dict of weights.
CallerBuilds ==
    /\ Len(heap) <= MaxDicts
    /\ \E weights \in CallerWeights :
          /\ heap' = Append(heap, weights)
          /\ held' = held \cup {Len(heap) + 1}
    /\ judge_call' = JudgeCall("caller", 0, TRUE, NoMessage)
    /\ UNCHANGED <<judge, config_file, JudgeRest>>
\* The caller stores a value under a key of a dict it holds.
CallerChanges ==
    /\ \E id \in held, i \in 1 .. 2, v \in CallerValues :
          /\ i <= Len(heap[id])
          /\ heap[id][i][2] # v
          /\ heap' = [heap EXCEPT ![id][i][2] = v]
    /\ judge_call' = JudgeCall("caller", 0, TRUE, NoMessage)
    /\ UNCHANGED <<judge, config_file, held, JudgeRest>>
\* judge.set_weights(weights) with a dict the caller holds.
JudgeSetWeights ==
    /\ \E id \in held :
       \E done \in {set_weights(judge, heap, config_file, id)} :
          /\ judge' = done.self
          /\ config_file' = done.config_file
          /\ judge_call' = JudgeCall("set_weights", id, done.ok, done.message)
    /\ UNCHANGED <<heap, held, JudgeRest>>
\* judge.get_weights(), lines 69-71: the caller gets a copy.
JudgeGetWeights ==
    /\ Len(heap) <= MaxDicts
    /\ heap' = Append(heap, heap[judge.weights])
    /\ held' = held \cup {Len(heap) + 1}
    /\ judge_call' = JudgeCall("get_weights", Len(heap) + 1, TRUE, NoMessage)
    /\ UNCHANGED <<judge, config_file, JudgeRest>>
\* A JudgeConfig is constructed anew on the same config file; the caller keeps
\* its dicts.  judge_call.arg is the dict the previous call was a successful
\* set_weights with, if it was one.
JudgeConstruct ==
    /\ judge_call.op # "init"
    /\ config_file # None => Len(heap) <= MaxDicts
    /\ heap' = IF config_file = None THEN heap
               ELSE Append(heap, config_file.weights)
    /\ judge' = [default_weights |-> DefaultsId,
                 weights |-> IF config_file = None THEN DefaultsId
                             ELSE Len(heap) + 1]
    /\ judge_call' =
           JudgeCall("init",
                     IF judge_call.op = "set_weights" /\ judge_call.ok
                     THEN judge_call.arg ELSE 0,
                     TRUE, NoMessage)
    /\ UNCHANGED <<config_file, held, JudgeRest>>

NextJudge ==
    \/ CallerBuilds
    \/ CallerChanges
    \/ JudgeSetWeights
    \/ JudgeGetWeights
    \/ JudgeConstruct
SpecJudge == InitJudge /\ [][NextJudge]_vars

\* ------------------------------------------------ claims about the weights
\* Weights that are all >= 0 and sum to exactly 100.
ValidWeights(weights) ==
    /\ SumValues(weights) = 100
    /\ \A i \in 1 .. Len(weights) : weights[i][2] >= 0
\* Two dicts with the same items (dict equality does not look at the order).
SameItems(a, b) == Range(a) = Range(b)

\* C11 as stated: set_weights with weights that are all >= 0 and sum to 100
\* reports success, get_weights then returns those weights, the config file
\* holds them, and a JudgeConfig constructed next on the same file has them.
C11_ValidWeightsPersist ==
    /\ (judge_call.op = "set_weights" /\ ValidWeights(heap[judge_call.arg])) =>
           /\ judge_call.ok
           /\ SameItems(heap[judge.weights], heap[judge_call.arg])
           /\ config_file # None
           /\ SameItems(config_file.weights, heap[judge_call.arg])
    /\ (judge_call.op = "init" /\ judge_call.arg # 0) =>
           SameItems(heap[judge.weights], heap[judge_call.arg])
\* set_weights has just accepted weights other than the ones in force before.
C11_Witness ==
    /\ judge_call.op = "set_weights" /\ judge_call.ok
    /\ ValidWeights(heap[judge_call.arg])
    /\ ~SameItems(heap[judge_call.arg], default_weights)
    /\ config_file = None

\* C12: a set_weights call with weights whose sum is not 100, or that hold a
\* negative value (also when they sum to 100), returns failure with a message
\* that names the violation (the sum it got, or a criterion with its negative
\* weight), and changes neither the JudgeConfig, nor any dict, nor the file.
C12_InvalidWeightsRejected ==
    [][(judge_call'.op = "set_weights" /\ ~ValidWeights(heap[judge_call'.arg])) =>
          /\ ~judge_call'.ok
          /\ IF SumValues(heap[judge_call'.arg]) # 100
             THEN /\ judge_call'.message.kind = "must sum to 100"
                  /\ judge_call'.message.amount = SumValues(heap[judge_call'.arg])
             ELSE /\ judge_call'.message.kind = "cannot be negative"
                  /\ judge_call'.message.amount < 0
                  /\ <<judge_call'.message.criteria, judge_call'.message.amount>>
                         \in Range(heap[judge_call'.arg])
          /\ judge' = judge
          /\ heap' = heap
          /\ config_file' = config_file]_vars
\* set_weights has just refused weights that sum to 100 and hold a negative
\* value, while weights set earlier are in force.
C12_Witness ==
    /\ judge_call.op = "set_weights" /\ ~judge_call.ok
    /\ SumValues(heap[judge_call.arg]) = 100
    /\ judge_call.message.kind = "cannot be negative"
    /\ judge.weights # DefaultsId
    /\ ValidWeights(heap[judge.weights])
\* The sum case of C12: weights summing to 99 were refused.
C12_SumRefused ==
    /\ judge_call.op = "set_weights" /\ ~judge_call.ok
    /\ judge_call.message = Message("must sum to 100", "", 99)

\* C13 as stated: for a JudgeConfig built from the defaults (no config file)
\* the active weights are, in every reachable state, all >= 0 and sum to 100,
\* whatever the caller does afterwards to a dict it passed to set_weights or
\* got from get_weights.
C13_ActiveWeightsAlwaysValid ==
    (judge # None /\ config_file = None) => ValidWeights(heap[judge.weights])
\* The caller has changed a dict it got from get_weights and the active
\* weights are still the defaults.
C13_Witness ==
    /\ judge # None /\ config_file = None
    /\ judge_call.op = "caller"
    /\ judge.weights = DefaultsId
    /\ \E id \in held : ~ValidWeights(heap[id])

\* ------------------------------------------- more claims about one request
\* C14 as stated: on the context with an empty file tree, an empty README and
\* empty artifacts every one of the nine agents returns confidence 0.0.
C14_NoEvidenceNoConfidence ==
    (Ran /\ context = EmptyContext /\ Len(RunOrder) = 9 /\ failing = {}) =>
        \A i \in 1 .. Len(agent_results) : agent_results[i].confidence = 0
\* All nine agents ran on the empty context and none raised.
C14_Witness ==
    /\ Ran /\ context = EmptyContext /\ Len(RunOrder) = 9 /\ failing = {}
    /\ Len(agent_results) = 9

\* C17 as stated: when the fetch of the file tree or of the README fails,
\* grade runs no agent and returns the top-level failure result (an error,
\* total_score 0, an empty breakdown, pass_fail "fail").
C17_FetchFailureFailsTheRequest ==
    (phase = "graded" /\ github # "up") =>
        /\ agent_results = << >>
        /\ final_results = FailureResult
\* What the code does instead: for a well-formed GitHub URL every selected
\* agent runs on whatever the fetches returned, an empty tree or README where
\* the fetch failed, and the verdict carries no error.
C17_Witness ==
    /\ phase = "graded" /\ github = "down"
    /\ ~get_repo_info_raises(repo_url)
    /\ Len(agent_results) = 9
    /\ ~final_results.error
    /\ ~context.code_file /\ ~context.readme

\* ------------------------------------ LearningAgent instances and their file
\* One working directory: instances of LearningAgent are constructed one after
\* another, each loading learning_data.json if it is there, and analyze is
\* called on the current instance.  replayed lists the calls made on the
\* current instance, before is its memory when the last call began.
RichFeatures ==
    [file_count |-> 11, code_file_count |-> 11, has_tests |-> TRUE,
     has_docs |-> TRUE, config_file_count |-> 1, has_dockerfile |-> FALSE,
     has_ci_cd |-> FALSE, security_files |-> 0, technology_stack |-> {"Python"},
     architecture_patterns |-> {}, has_readme |-> TRUE]
ReplayFeatures == {RichFeatures, _extract_features(EmptyContext)}
InitLearning ==
    /\ analysis = None
    /\ learning = _load_learning_data(None)
    /\ data_file = None
    /\ replayed = << >>
    /\ before = None
    /\ stored = << >>
    /\ GradeUnused /\ CacheUnused /\ ThreadsUnused /\ JudgeUnused
LearnRest == <<gradeVars, cacheVars, threadVars, judgeVars, stored>>
\* LearningAgent(): a new instance in the same working directory.
LearnConstruct ==
    /\ replayed # << >>
    /\ learning' = _load_learning_data(data_file)
    /\ replayed' = << >>
    /\ analysis' = None
    /\ before' = None
    /\ UNCHANGED <<data_file, LearnRest>>
\* LearningAgent.analyze(context), lines 1807-1860, with _store_analysis.
LearnAnalyze ==
    /\ learning.learning_data < MaxStored
    /\ \E features \in ReplayFeatures :
       \E result \in {LearningAgent_analyze(learning, features)} :
       \E after \in {LearningAgent_after(learning, features)} :
          /\ analysis' = Named("learning", result)
          /\ before' = learning
          /\ learning' = after
          /\ data_file' = _save_learning_data(after, data_file)
          /\ replayed' = Append(replayed, [features |-> features,
                                           score |-> result.score])
    /\ UNCHANGED LearnRest
NextLearning == LearnConstruct \/ LearnAnalyze
SpecLearning == InitLearning /\ [][NextLearning]_vars

\* ----------------------------------------- claims about the Learning agent
\* C15: the result of a call to LearningAgent.analyze is computed from the
\* history and pattern_weights as they were before the call, and what the call
\* leaves behind is that memory with this analysis stored.
C15_PredictBeforeStore ==
    analysis # None =>
        \E features \in {replayed[Len(replayed)].features} :
            /\ analysis.score = Clamp(_predict_score(before, features))
            /\ analysis.confidence = _calculate_ml_confidence(before, features)
            /\ learning = _store_analysis(before, features, analysis.score)
\* The same features twice on a new instance: the first call, made with no
\* history, scores 5; the second scores from the history of one and only then
\* changes the weights.
C15_Witness ==
    /\ Len(replayed) = 2
    /\ replayed[1].features = replayed[2].features
    /\ replayed[1].score = 5 /\ replayed[2].score > 5
    /\ before.learning_data = 1
    /\ before.pattern_weights # learning.pattern_weights

\* The scores a new LearningAgent with no file gives to a list of contexts.
RECURSIVE ReplayScores(_, _)
ReplayScores(self, calls) ==
    IF calls = << >> THEN << >>
    ELSE <<LearningAgent_analyze(self, calls[1].features).score>>
           \o ReplayScores(LearningAgent_after(self, calls[1].features), Tail(calls))
RECURSIVE ReplayMemory(_, _)
ReplayMemory(self, calls) ==
    IF calls = << >> THEN self
    ELSE ReplayMemory(LearningAgent_after(self, calls[1].features), Tail(calls))
\* C16 as stated: the calls made on a newly constructed LearningAgent give the
\* scores and the final pattern_weights that the same calls give on any other
\* newly constructed one, whatever earlier instances did in the directory.
C16_ReplayIsReproducible ==
    /\ [i \in 1 .. Len(replayed) |-> replayed[i].score]
           = ReplayScores(FreshLearning, replayed)
    /\ learning.pattern_weights
           = ReplayMemory(FreshLearning, replayed).pattern_weights
\* What happens: an instance made ten analyses, which wrote the file; the next
\* instance loaded it and scores its first context from that history.
C16_Witness ==
    /\ data_file # None
    /\ Len(replayed) = 1
    /\ before = data_file
    /\ replayed[1].score # 5

\* C19: AgentOrchestrator.analyze runs exactly the agents that selected_agents
\* names with identifiers '1'..'9', each once and in the order in which the
\* orchestrator constructed them, however the identifiers are ordered or
\* repeated; with no selection it runs all nine.
C19_SelectedAgentsRunOnceInOrder ==
    (Ran /\ UnknownId \notin Range(selected_agents)) =>
        \E ran \in {[i \in 1 .. Len(agent_results) |-> agent_results[i].agent_name]} :
            /\ Range(ran) = IF selected_agents = NoSelection THEN Range(AgentNames)
                            ELSE {agent_mapping(num) : num \in Range(selected_agents)}
            /\ \A i, j \in 1 .. Len(ran) :
                   i < j => \E a, b \in 1 .. Len(AgentNames) :
                                a < b /\ AgentNames[a] = ran[i] /\ AgentNames[b] = ran[j]
\* Identifiers given out of order and one of them twice: three agents ran,
\* in construction order.
C19_Witness ==
    /\ Ran /\ selected_agents = <<"9", "3", "9", "1">>
    /\ [i \in 1 .. Len(agent_results) |-> agent_results[i].agent_name]
           = <<"code", "ui_ux", "learning">>
\* No selection: all nine ran.
C19_AllNine ==
    /\ Ran /\ selected_agents = NoSelection
    /\ Len(agent_results) = 9

\* ------------------------------- the lists of recommendations and of risks
\* What _combine_agent_results and _map_ai_results_to_grades do with the
\* recommendations and risks of the agents.  A text is a string; lower is
\* str.lower on the texts used; an entry f"{agent_name}: {text}" is the pair
\* <<agent_name, text>>.
Texts == {"Add tests", "add tests", "Add docs", "No tests", "no tests", "No docs"}
lower(text) ==
    CASE text = "Add tests" -> "add tests" [] text = "Add docs" -> "add docs"
      [] text = "No tests" -> "no tests" [] text = "No docs" -> "no docs"
      [] OTHER -> text
\* What one agent may return: nothing, a pair of texts that differ in case
\* only, or a text seen before followed by a new one.
AgentLists ==
    {[recommendations |-> << >>, risks |-> << >>],
     [recommendations |-> <<"Add tests", "add tests">>,
      risks |-> <<"No tests", "no tests">>],
     [recommendations |-> <<"add tests", "Add docs">>,
      risks |-> <<"no tests", "No docs">>]}
\* src/ai_agents.py 4291 and 4293: the entries of every agent, in run order.
RECURSIVE AllEntries(_, _)
AllEntries(results, field) ==
    IF results = << >> THEN << >>
    ELSE [i \in 1 .. Len(Head(results)[field]) |->
             <<Head(results).agent_name, Head(results)[field][i]>>]
           \o AllEntries(Tail(results), field)
\* src/ai_agents.py 4317 and 4319: all_recommendations[:15], all_risks[:10].
RecommendationsCap == 15
First(list, n) == SubSeq(list, 1, Min(n, Len(list)))
CombinedLists(results) ==
    [recommendations |-> First(AllEntries(results, "recommendations"),
                               RecommendationsCap),
     risks |-> First(AllEntries(results, "risks"), RisksCap)]
\* AIGrader._deduplicate_recommendations, src/ai_grader.py 661-675, and the
\* loops of lines 204-228, which keep an entry unless the lower-case form of
\* its text was seen before.
RECURSIVE Deduplicate(_, _)
Deduplicate(entries, seen) ==
    IF entries = << >> THEN << >>
    ELSE IF lower(Head(entries)[2]) \in seen THEN Deduplicate(Tail(entries), seen)
    ELSE <<Head(entries)>>
           \o Deduplicate(Tail(entries), seen \cup {lower(Head(entries)[2])})
_deduplicate_recommendations(recommendations) == Deduplicate(recommendations, {})
\* agent_recommendations and agent_risks: per agent, the texts kept.
ByAgent(entries) ==
    [name \in {entries[i][1] : i \in 1 .. Len(entries)} |->
        LET Own(entry) == entry[1] = name
            own == SelectSeq(entries, Own)
        IN  [i \in 1 .. Len(own) |-> own[i][2]]]
\* src/ai_grader.py 391: "risks_red_flags": all_risks[:5].
RedFlagsCap == 5
GradedLists(results) ==
    [agent_recommendations |->
         ByAgent(Deduplicate(_deduplicate_recommendations(results.recommendations), {})),
     agent_risks |-> ByAgent(Deduplicate(results.risks, {})),
     risks_red_flags |-> First(results.risks, RedFlagsCap)]

\* Nine agents have returned; the orchestrator combines, the grader maps.
InitLists ==
    /\ phase = "idle"
    /\ agent_results \in
           {[i \in 1 .. Len(AgentNames) |->
                [agent_name |-> AgentNames[i],
                 recommendations |-> lists[i].recommendations,
                 risks |-> lists[i].risks]] :
               lists \in [1 .. Len(AgentNames) -> AgentLists]}
    /\ ai_results = None
    /\ final_results = None
    /\ context = None /\ selected_agents = << >> /\ failing = {}
    /\ repo_url = << >> /\ github = "unused" /\ responses = << >>
    /\ AgentsUnused /\ CacheUnused /\ ThreadsUnused /\ JudgeUnused
ListsRest ==
    <<agentVars, cacheVars, threadVars, judgeVars, context, selected_agents,
      failing, repo_url, github, responses, agent_results>>
CombineAgentResults ==
    /\ phase = "idle"
    /\ phase' = "combined"
    /\ ai_results' = CombinedLists(agent_results)
    /\ UNCHANGED <<final_results, ListsRest>>
MapAIResultsToGrades ==
    /\ phase = "combined"
    /\ phase' = "graded"
    /\ final_results' = GradedLists(ai_results)
    /\ UNCHANGED <<ai_results, ListsRest>>
NextLists == CombineAgentResults \/ MapAIResultsToGrades
SpecLists == InitLists /\ [][NextLists]_vars

\* The texts of a per-agent map, agent by agent in construction order.
RECURSIVE Flatten(_, _)
Flatten(by_agent, names) ==
    IF names = << >> THEN << >>
    ELSE (IF Head(names) \in DOMAIN by_agent THEN by_agent[Head(names)] ELSE << >>)
           \o Flatten(by_agent, Tail(names))
\* The first occurrence of every text, ignoring case, in the order produced.
FirstDistinct(texts) ==
    LET IsFirst(i) == \A j \in 1 .. i - 1 : lower(texts[j]) # lower(texts[i])
        kept == {i \in 1 .. Len(texts) : IsFirst(i)}
        Nth(n) == CHOOSE i \in kept : Cardinality({j \in kept : j < i}) = n - 1
    IN  [n \in 1 .. Cardinality(kept) |-> texts[Nth(n)]]
Produced(field) ==
    LET entries == AllEntries(agent_results, field)
    IN  [i \in 1 .. Len(entries) |-> entries[i][2]]
C20_Witness ==
    /\ phase = "graded"
    /\ Len(Produced("risks")) > RisksCap
    /\ Len(FirstDistinct(Produced("risks"))) = 2
    /\ Len(Flatten(final_results.agent_risks, AgentNames)) = 1

\* ------------------------------------------ the web endpoint (src/web_app.py)
\* str.strip on a URL: the blanks at both ends go.
RECURSIVE lstrip(_)
lstrip(url) == IF url # << >> /\ Head(url) = " " THEN lstrip(Tail(url)) ELSE url
RECURSIVE rstrip(_)
rstrip(url) ==
    IF url # << >> /\ url[Len(url)] = " " THEN rstrip(SubSeq(url, 1, Len(url) - 1))
    ELSE url
strip(url) == rstrip(lstrip(url))
BlankUrl == <<" ">>
\* The checks of lines 248-255, in their order: the ValidationError raised,
\* None when the request passes.  The mutant leaves the last check out.
ValidationError(message, field) == [message |-> message, field |-> field]
validation_error_url_only(url, selected_agent_ids) ==
    IF url = << >> THEN ValidationError("Repository URL is required", "repo_url")
    ELSE IF ~NamesGitHub(url)
    THEN ValidationError("Invalid repository URL", "repo_url")
    ELSE None
validation_error(url, selected_agent_ids) ==
    IF url = << >> THEN ValidationError("Repository URL is required", "repo_url")
    ELSE IF ~NamesGitHub(url)
    THEN ValidationError("Invalid repository URL", "repo_url")
    ELSE IF selected_agent_ids = << >>
    THEN ValidationError("At least one agent must be selected", "selected_agents")
    ELSE None
\* AIGrader(...).grade(repo_url, branch, selected_agents) as the endpoint
\* calls it, lines 279-281: a new grader, whose LearningAgent loads the file.
\* It returns the cache, the result, and what the run left behind.
unified_grader_grade(cache, file, url, selection, repository, condition) ==
    LET key == CacheKey(url, Branch, AsStrings(selection))
        lookup == IF selection # NoSelection THEN AnalysisCache_get(cache, key)
                  ELSE [self |-> cache, value |-> None]
        memory == _load_learning_data(file)
        weights == IF config_file = None THEN default_weights
                   ELSE config_file.weights
        idle == [results |-> lookup.value, cache |-> lookup.self, ran |-> FALSE,
                 context |-> None, agent_results |-> << >>, ai_results |-> None,
                 learning |-> memory, data_file |-> file]
    IN  IF lookup.value # None THEN idle
        ELSE IF get_repo_info_raises(url)
        THEN [idle EXCEPT !.results = FailureResult]
        ELSE LET fetched == Fetch(repository, condition)
                 run == analyze(fetched, selection, {}, memory)
                 graded == _map_ai_results_to_grades(run.combined_result, selection,
                                                     weights)
             IN  [results |-> graded,
                  cache |-> IF selection # NoSelection
                            THEN AnalysisCache_set(lookup.self, key, graded)
                            ELSE lookup.self,
                  ran |-> TRUE,
                  context |-> fetched,
                  agent_results |-> run.agent_results,
                  ai_results |-> run.combined_result,
                  learning |-> run.learning,
                  data_file |-> IF run.learning # memory
                                THEN _save_learning_data(run.learning, file)
                                ELSE file]

\* The requests: a URL that is missing, blank, not GitHub's, GitHub's without
\* a repository, or a repository's; no selection, one agent, or two out of
\* order with the Learning agent among them.
WebUrls == {<< >>, BlankUrl, OtherUrl, BareUrl, RepoUrl, SiblingUrl}
WebSelections == {<< >>, <<"1">>, <<"9", "1">>}
WebRepositories == {EmptyContext, [code_file |-> TRUE, readme |-> TRUE, demo |-> FALSE]}
Answer(success, status, body) == [success |-> success, status |-> status, body |-> body]
InitWeb ==
    /\ analysis_cache = AnalysisCache_init(DefaultMaxSize)
    /\ used = << >> /\ last_call = Idle
    /\ responses = << >>
    /\ github \in {"up", "down"}
    /\ phase = "unused" /\ context = None /\ selected_agents = << >>
    /\ failing = {} /\ agent_results = << >> /\ ai_results = None
    /\ final_results = None /\ repo_url = << >>
    /\ AgentsUnused /\ ThreadsUnused /\ JudgeUnused
WebRest ==
    <<analysis, replayed, before, stored, phase, failing, github, used, last_call,
      threadVars, judgeVars>>
\* analyze_repository, lines 229-307.  The repository behind the URL matters
\* only when the fetches are made; otherwise it is taken to be the empty one.
analyze_repository ==
    /\ Len(responses) < MaxRequests
    /\ \E raw \in WebUrls, selected_agent_ids \in WebSelections,
          repository \in WebRepositories :
       \E url \in {strip(raw)} :
       \E refused \in {validation_error(url, selected_agent_ids)} :
          /\ repo_url' = raw
          /\ selected_agents' = selected_agent_ids
          /\ IF refused # None
             THEN /\ repository = EmptyContext
                  /\ responses' = Append(responses,
                                         Answer(FALSE, 400,
                                                [error |-> refused.message,
                                                 error_type |-> "validation"]))
                  /\ UNCHANGED <<analysis_cache, learning, data_file, context,
                                 agent_results, ai_results, final_results>>
             ELSE \E cached \in {AnalysisCache_get_analysis(analysis_cache, url, Branch,
                                                            AsStrings(selected_agent_ids))} :
                  IF cached.value # None
                  THEN /\ repository = EmptyContext
                       /\ responses' = Append(responses,
                                              Answer(TRUE, 200,
                                                     [results |-> cached.value,
                                                      cached |-> TRUE]))
                       /\ analysis_cache' = cached.self
                       /\ UNCHANGED <<learning, data_file, context, agent_results,
                                      ai_results, final_results>>
                  ELSE \E done \in {IF selected_agent_ids # << >>
                                    THEN unified_grader_grade(cached.self, data_file, url,
                                                              selected_agent_ids,
                                                              repository, github)
                                    ELSE [results |-> [error |-> "No agents selected"],
                                          cache |-> cached.self, ran |-> FALSE,
                                          context |-> None, agent_results |-> << >>,
                                          ai_results |-> None, learning |-> learning,
                                          data_file |-> data_file]} :
                       /\ (~done.ran => repository = EmptyContext)
                       /\ responses' = Append(responses,
                                              Answer(TRUE, 200,
                                                     [results |-> done.results,
                                                      cached |-> FALSE]))
                       /\ analysis_cache' =
                              AnalysisCache_set_analysis(done.cache, url, Branch,
                                                         AsStrings(selected_agent_ids),
                                                         done.results)
                       /\ learning' = done.learning
                       /\ data_file' = done.data_file
                       /\ context' = done.context
                       /\ agent_results' = done.agent_results
                       /\ ai_results' = done.ai_results
                       /\ final_results' = done.results
    /\ UNCHANGED WebRest
NextWeb == analyze_repository
SpecWeb == InitWeb /\ [][NextWeb]_vars

\* ------------------------------------------- claims about the web endpoint
\* The request just answered is one the endpoint must refuse.
Refusable ==
    \/ strip(repo_url) = << >>
    \/ ~NamesGitHub(strip(repo_url))
    \/ selected_agents = << >>
\* C18: a request with a missing URL, a URL that does not name github.com, or
\* an empty agent selection is answered with a validation error, and answering
\* it leaves the cache's contents, its hit and miss counters, the Learning
\* agent's memory and file, and the results of earlier runs as they were: no
\* lookup, no fetch and no agent run took place.
C18_RejectedBeforeAnyWork ==
    [][(Len(responses') = Len(responses) + 1 /\ Refusable') =>
          /\ ~responses'[Len(responses')].success
          /\ responses'[Len(responses')].status = 400
          /\ responses'[Len(responses')].body.error_type = "validation"
          /\ analysis_cache' = analysis_cache
          /\ learning' = learning /\ data_file' = data_file
          /\ context' = context /\ agent_results' = agent_results
          /\ ai_results' = ai_results]_vars
\* A request with an empty selection was refused after an earlier request had
\* run the Learning agent and filled the cache.
C18_Witness ==
    /\ Len(responses) >= 2
    /\ responses[Len(responses)].body = [error |-> "At least one agent must be selected",
                                         error_type |-> "validation"]
    /\ NamesGitHub(repo_url) /\ selected_agents = << >>
    /\ analysis_cache.cache # << >> /\ analysis_cache.miss_count = 2
    /\ learning # FreshLearning

\* --------------------------------------------- claims about the breakdown
\* The category of the breakdown and the key of the judge's weights that
\* belong to an agent.
CategoryOf(name) ==
    CASE name = "code" -> "code_analysis" [] name = "ui_ux" -> "ui"
      [] name = "technical" -> "technical_complexity" [] OTHER -> name
JudgeKeyOf(name) == IF name = "code" THEN "code_analysis" ELSE name
HasKey(dict, key) == \E i \in 1 .. Len(dict) : dict[i][1] = key
\* C21 as stated: for every agent that ran, the breakdown of the verdict has
\* that agent's category with its score and confidence, weighted with the
\* judge's percentage for the agent when the grader has a JudgeConfig and
\* with an equal share of 100 otherwise.
C21_EveryAgentHasWeightedCategory ==
    (Ran /\ phase = "graded") =>
        \A i \in 1 .. Len(agent_results) :
            \E name \in {agent_results[i].agent_name} :
                /\ HasKey(final_results.breakdown, CategoryOf(name))
                /\ \E entry \in {Lookup(final_results.breakdown, CategoryOf(name), None)} :
                      /\ entry.score = agent_results[i].score
                      /\ entry.ai_confidence = agent_results[i].confidence
                      /\ IF judge = None
                         THEN entry.weight * Len(agent_results) = 100
                         ELSE HasKey(heap[judge.weights], JudgeKeyOf(name)) =>
                                  entry.weight = Lookup(heap[judge.weights],
                                                        JudgeKeyOf(name), 0)
\* What happens: all nine agents ran and the breakdown has four categories,
\* none of them for the Learning agent.
C21_Witness ==
    /\ Ran /\ phase = "graded" /\ Len(agent_results) = 9
    /\ Len(final_results.breakdown) = 4
    /\ ~HasKey(final_results.breakdown, "learning")
\* With the judge's default weights, the one agent selected is weighted 20.
C21_JudgeWeightUsed ==
    /\ Ran /\ phase = "graded" /\ selected_agents = <<"1">>
    /\ judge # None /\ config_file = None
    /\ final_results.breakdown
           = <<<<"code_analysis", [score |-> agent_results[1].score, weight |-> 20,
                                   ai_confidence |-> agent_results[1].confidence]>>>>

\* --------------------------------------------- the history of the analyses
\* learning_data as a list.  An entry is the number of the analyze call that
\* stored it and the score stored.  The agent starts with the entries of
\* `first` to `last`, a history that is empty, short, or at the cap or just
\* under it, and analyze is called up to MaxAppends times.
Numbered(first, last) == [i \in 1 .. last - first + 1 |-> [call |-> first + i - 1, score |-> 5]]
InitHistory ==
    /\ \E first \in 1 .. 3 :
       \E length \in {0, 1, 2, HistoryCap - 2, HistoryCap - 1, HistoryCap} :
           stored = Numbered(first, first + length - 1)
    /\ replayed = << >>
    /\ before = None
    /\ data_file = None
    /\ analysis = None /\ learning = FreshLearning
    /\ GradeUnused /\ CacheUnused /\ ThreadsUnused /\ JudgeUnused
\* The call after the last one stored.
NextCall == IF stored = << >> THEN 1 ELSE stored[Len(stored)].call + 1
\* _store_analysis, lines 2199-2217, on the list.
StoreAnalysis ==
    /\ Len(replayed) < MaxAppends
    /\ \E score \in {0, 5, 10} :
       \E analysis_data \in {[call |-> NextCall, score |-> score]} :
          /\ before' = stored
          /\ stored' = KeepRecent(stored, analysis_data)
          /\ replayed' = Append(replayed, analysis_data)
    /\ UNCHANGED <<analysis, learning, data_file, gradeVars, cacheVars,
                   threadVars, judgeVars>>
NextHistory == StoreAnalysis
SpecHistory == InitHistory /\ [][NextHistory]_vars

\* C22: after every analyze call the history holds at most 1000 entries; a
\* call on a full history drops the oldest entry and appends the new one, a
\* call on a shorter one only appends, so the history is the most recent
\* analyses in call order.
C22_HistoryIsTheMostRecentThousand ==
    /\ Len(stored) <= HistoryCap
    /\ \A i \in 1 .. Len(stored) - 1 : stored[i + 1].call = stored[i].call + 1
    /\ replayed # << >> =>
           /\ stored[Len(stored)] = replayed[Len(replayed)]
           /\ stored = IF Len(before) < HistoryCap
                       THEN Append(before, replayed[Len(replayed)])
                       ELSE Append(Tail(before), replayed[Len(replayed)])
\* Two calls on a full history: the two oldest entries are gone and the two
\* new ones are at the end.
C22_Witness ==
    /\ Len(replayed) = 2 /\ Len(before) = HistoryCap /\ Len(stored) = HistoryCap
    /\ stored[1].call = before[2].call
    /\ stored[HistoryCap - 1] = replayed[1] /\ stored[HistoryCap] = replayed[2]

\* ------------------------------------------ claims about the pattern weights
\* The weight a memory holds for a pattern, 0.0 for a pattern it has not seen
\* (defaultdict(float)); in tenths.
WeightOf(self, pattern) ==
    IF pattern \in DOMAIN self.pattern_weights THEN self.pattern_weights[pattern]
    ELSE 0
\* The patterns a feature vector matches: its technologies, its architecture
\* patterns, has_tests and has_docs when set, no_tests and no_docs when not.
Matching(features) ==
    {<<"tech", t>> : t \in features.technology_stack}
      \cup {<<"arch", a>> : a \in features.architecture_patterns}
      \cup {<<"flag", "has_tests">> : x \in {1} \cap {B(features.has_tests)}}
      \cup {<<"flag", "has_docs">> : x \in {1} \cap {B(features.has_docs)}}
      \cup {<<"flag", "no_tests">> : x \in {0} \cap {B(features.has_tests)}}
      \cup {<<"flag", "no_docs">> : x \in {0} \cap {B(features.has_docs)}}
\* C23: after every analyze call every pattern weight lies in [-1, 1]; the
\* call changed no weight by more than 0.1, raised weights of matching
\* patterns only and only on a score of 7 or more, lowered weights only on a
\* score of 3 or less, and changed nothing on a score from 4 to 6.
C23_WeightsMoveByATenthWithinBounds ==
    analysis # None =>
        \E features \in {replayed[Len(replayed)].features} :
        \A k \in DOMAIN learning.pattern_weights \cup DOMAIN before.pattern_weights :
            /\ WeightOf(learning, k) >= -10 /\ WeightOf(learning, k) <= 10
            /\ Abs(WeightOf(learning, k) - WeightOf(before, k)) <= 1
            /\ WeightOf(learning, k) > WeightOf(before, k) =>
                   analysis.score >= 7 /\ k \in Matching(features)
            /\ WeightOf(learning, k) < WeightOf(before, k) =>
                   analysis.score <= 3 /\ k \in Matching(features)
            /\ (analysis.score >= 4 /\ analysis.score <= 6) =>
                   WeightOf(learning, k) = WeightOf(before, k)
\* A call that scored 7 or more raised has_tests from 0.9 to 1.0, and the
\* weight stays there.
C23_Witness ==
    /\ analysis # None /\ analysis.score >= 7
    /\ WeightOf(before, <<"flag", "has_tests">>) = 9
    /\ WeightOf(learning, <<"flag", "has_tests">>) = 10
\* A call that scored 5 left the weights it found, which are not all zero.
C23_Unchanged ==
    /\ analysis # None /\ analysis.score = 5
    /\ before.pattern_weights # << >>
    /\ learning.pattern_weights = before.pattern_weights

\* ----------------------------------------------- claims about the prediction
\* C24 as stated: the prediction adds the weight of a learned pattern exactly
\* when the pattern matches the current features: has_tests and has_docs
\* when the context has tests and documentation, a technology or architecture
\* pattern when it was detected in the context.
C24_OnlyMatchingWeightsCount ==
    (analysis # None /\ before.learning_data > 0) =>
        \E features \in {replayed[Len(replayed)].features} :
        \E matching \in {DOMAIN before.pattern_weights \cap Matching(features)} :
            analysis.score =
                Max(0, Min(10, RoundHalfEven(
                    PredictedTenths(FreshLearning, features)
                      + SumWeights(before.pattern_weights, matching), 10)))
\* What happens: the context has no tests and no documentation, and the
\* weights learned for has_tests and has_docs lift its score from 5 to 6.
C24_Witness ==
    /\ analysis # None /\ before.learning_data > 0
    /\ replayed[Len(replayed)].features = _extract_features(EmptyContext)
    /\ WeightOf(before, <<"flag", "has_tests">>) = 3
    /\ WeightOf(before, <<"flag", "has_docs">>) = 3
    /\ analysis.score = 6

\* ------------------------------------- two LearningAgents and the one file
\* Two request handlers, threads or processes, work in one directory.  Each
\* constructs its LearningAgent, which loads learning_data.json, and calls
\* analyze on it; a call is taken as one step, which is the most any lock in
\* the code could give.  frame holds each handler's agent and the number of
\* analyses it made.
Workers == {1, 2}
InitShared ==
    /\ data_file = None
    /\ pc = [t \in Workers |-> "start"]
    /\ frame = [t \in Workers |-> None]
    /\ replayed = << >> /\ before = None /\ stored = << >>
    /\ analysis = None /\ learning = FreshLearning
    /\ GradeUnused /\ CacheUnused /\ JudgeUnused
SharedRest ==
    <<analysis, learning, replayed, before, stored, gradeVars, cacheVars, judgeVars>>
\* LearningAgent.__init__, lines 1793-1805.
SharedConstruct(t) ==
    /\ pc[t] = "start"
    /\ pc' = [pc EXCEPT ![t] = "ready"]
    /\ frame' = [frame EXCEPT ![t] = [agent |-> _load_learning_data(data_file),
                                      analyses |-> 0]]
    /\ UNCHANGED <<data_file, SharedRest>>
\* LearningAgent.analyze, lines 1807-1860, with the save of _store_analysis.
SharedAnalyze(t) ==
    /\ pc[t] = "ready"
    /\ frame[t].analyses < MaxShared
    /\ \E after \in {LearningAgent_after(frame[t].agent, RichFeatures)} :
          /\ frame' = [frame EXCEPT ![t] = [agent |-> after,
                                            analyses |-> frame[t].analyses + 1]]
          /\ data_file' = _save_learning_data(after, data_file)
    /\ UNCHANGED <<pc, SharedRest>>
NextShared == \E t \in Workers : SharedConstruct(t) \/ SharedAnalyze(t)
SpecShared == InitShared /\ [][NextShared]_vars

\* Every handler's last analysis was one that saved.
AllSaved ==
    \A t \in Workers :
        /\ pc[t] = "ready" /\ frame[t].analyses > 0
        /\ frame[t].agent.learning_data % SaveEvery = 0
\* C25 as stated: when the analyses of both handlers have been saved, the
\* stored state is the one that all their analyses leave when made one after
\* another: it has every history entry and every weight update.
C25_NoLostUpdate ==
    AllSaved =>
        data_file = ReplayMemory(FreshLearning,
                                 [i \in 1 .. frame[1].analyses + frame[2].analyses |->
                                     [features |-> RichFeatures]])
\* What happens: both handlers loaded the empty state and made ten analyses
\* each; the file holds ten entries, those of the handler that saved last.
C25_Witness ==
    /\ AllSaved
    /\ frame[1].analyses = SaveEvery /\ frame[2].analyses = SaveEvery
    /\ data_file.learning_data = SaveEvery


\* ---------------------------------------------------------------------------
\* C26: a LearningAgent that starts with no persisted data never returns a
\* score below 5 and never holds a negative pattern weight or a no_tests or
\* no_docs pattern; its first analysis scores 5 with confidence 0.5 whatever
\* the features.
C26_FreshLearnerNeverPenalises ==
    (analysis # None /\ analysis.agent_name = "learning") =>
        /\ analysis.score >= 5
        /\ \A k \in DOMAIN learning.pattern_weights :
              /\ learning.pattern_weights[k] >= 0
              /\ k[2] \notin {"no_tests", "no_docs"}
        /\ learning.learning_data = 1 =>
              /\ analysis.score = 5
              /\ analysis.confidence = ConfScale \div 2
\* A later analysis scores above 5 and the memory holds a positive weight.
C26_Witness ==
    /\ analysis # None /\ analysis.agent_name = "learning"
    /\ learning.learning_data >= 2
    /\ analysis.score > 5
    /\ \E k \in DOMAIN learning.pattern_weights : learning.pattern_weights[k] > 0
\* The first analysis of a repository with tests, docs and many files.
C26_FirstCall ==
    /\ analysis # None /\ analysis.agent_name = "learning"
    /\ learning.learning_data = 1
    /\ analysis.score = 5
    /\ analysis.risks > 0


\* ---------------------------------------------------------------------------
\* The answers of the requests that ran the Learning agent.
RanLearning(i) ==
    /\ responses[i].success /\ ~responses[i].body.cached
    /\ "error" \in DOMAIN responses[i].body.results
    /\ responses[i].body.results.error = FALSE
    /\ HasKey(responses[i].body.results.agent_scores, "learning")
\* C27: the memory is written only when the history, after the append, holds
\* a multiple of ten analyses; so the requests of the web endpoint, each with
\* a grader of its own and starting without a data file, never write the
\* file, and every run of the Learning agent sees an empty history and
\* scores 5.
C27_WebNeverWritesTheDataFile ==
    /\ data_file = None
    /\ learning.learning_data <= 1
    /\ \A i \in 1 .. Len(responses) :
          RanLearning(i) =>
              Lookup(responses[i].body.results.agent_scores, "learning", None) = 5
\* Two requests for different repositories both ran the Learning agent.
C27_Witness ==
    /\ Len(responses) >= 2
    /\ RanLearning(1) /\ RanLearning(2)
    /\ learning.learning_data = 1
    /\ data_file = None
\* The rule itself, for one agent analysing again and again.
C27_SavedOnlyAtMultiplesOfTen ==
    [][data_file' # data_file => learning'.learning_data % SaveEvery = 0]_vars


\* ---------------------------------------------------------------------------
\* What the cache holds under a key, None when it holds nothing.
ValueAt(self, key) ==
    IF KeyIn(self.cache, key)
    THEN self.cache[CHOOSE i \in 1 .. Len(self.cache) : self.cache[i].key = key].value
    ELSE None
\* The key of the request just answered.
RequestKey == CacheKey(strip(repo_url), Branch, AsStrings(selected_agents))
\* C28: the web endpoint caches whatever grade returned, the failure result
\* included; a later identical request is answered from the cache with that
\* failure result, and nothing is fetched or run for it.
C28_FailureResultIsCachedAndServed ==
    [][Len(responses') = Len(responses) + 1 =>
          LET last == responses'[Len(responses')]
          IN  /\ (last.success /\ ~last.body.cached) =>
                     ValueAt(analysis_cache', RequestKey') = last.body.results
              /\ ValueAt(analysis_cache, RequestKey') = FailureResult =>
                     /\ last = Answer(TRUE, 200, [results |-> FailureResult,
                                                  cached |-> TRUE])
                     /\ ValueAt(analysis_cache', RequestKey') = FailureResult
                     /\ context' = context /\ agent_results' = agent_results
                     /\ ai_results' = ai_results /\ final_results' = final_results
                     /\ learning' = learning /\ data_file' = data_file]_vars
\* A request for a URL without a repository was answered from the cache with
\* the failure result of the request before it.
C28_Witness ==
    /\ Len(responses) >= 2
    /\ repo_url = BareUrl
    /\ responses[Len(responses) - 1] =
           Answer(TRUE, 200, [results |-> FailureResult, cached |-> FALSE])
    /\ responses[Len(responses)] =
           Answer(TRUE, 200, [results |-> FailureResult, cached |-> TRUE])
    /\ analysis_cache.hit_count = 1


\* ====================================================== the keys of the cache
\* Callers of set_analysis and get_analysis whose branch names and agent
\* identifiers are arbitrary strings, a colon among their characters.
KeyBranches == {<<"m">>, <<"m", ":", "1">>}
KeySelections ==
    {<<(<<"1">>)>>, <<(<<"2">>)>>, <<(<<"1">>), (<<"2">>)>>,
     <<(<<"2">>), (<<"1">>)>>, <<(<<"1", ":", "2">>)>>}
\* A result that remembers the call that stored it.
StoredFor(r, b, sel) == [repo_url |-> r, branch |-> b, selected_agents |-> sel]
InitKeys ==
    /\ analysis_cache = AnalysisCache_init(DefaultMaxSize)
    /\ used = << >>
    /\ last_call = Idle
    /\ AgentsUnused /\ GradeUnused /\ ThreadsUnused /\ JudgeUnused
KeysRest == <<used, agentVars, gradeVars, threadVars, judgeVars>>
KeysSetAnalysis ==
    \E r \in Repos, b \in KeyBranches, sel \in KeySelections :
        /\ Len(analysis_cache.cache) < MaxSize
        /\ analysis_cache' =
               AnalysisCache_set_analysis(analysis_cache, r, b, sel,
                                          StoredFor(r, b, sel))
        /\ last_call' = [Idle EXCEPT !.op = "set_analysis"]
        /\ UNCHANGED KeysRest
KeysGetAnalysis ==
    \E r \in Repos, b \in KeyBranches, sel \in KeySelections :
    \E got \in {AnalysisCache_get_analysis(analysis_cache, r, b, sel)} :
        /\ analysis_cache.hit_count + analysis_cache.miss_count < MaxLookups
        /\ analysis_cache' = got.self
        /\ last_call' = [op |-> "get_analysis", asked |-> StoredFor(r, b, sel),
                         value |-> got.value]
        /\ UNCHANGED KeysRest
NextKeys == KeysSetAnalysis \/ KeysGetAnalysis
SpecKeys == InitKeys /\ [][NextKeys]_vars

\* C29 as stated: the key is injective on the repository, the branch and the
\* set of agent identifiers, so get_analysis returns only a result that
\* set_analysis stored for the same repository, branch and set of agents.
C29_KeyIsInjective ==
    (last_call.op = "get_analysis" /\ last_call.value # None) =>
        /\ last_call.value.repo_url = last_call.asked.repo_url
        /\ last_call.value.branch = last_call.asked.branch
        /\ Range(last_call.value.selected_agents)
             = Range(last_call.asked.selected_agents)
\* A lookup answered with a result stored for the same agents in another order.
C29_Witness ==
    /\ last_call.op = "get_analysis" /\ last_call.value # None
    /\ last_call.value.repo_url = last_call.asked.repo_url
    /\ last_call.value.branch = last_call.asked.branch
    /\ last_call.value.selected_agents # last_call.asked.selected_agents
    /\ Range(last_call.value.selected_agents)
         = Range(last_call.asked.selected_agents)


\* ================================================= the agents the web lists
\* get_available_agents, web_app.py lines 344-364: the id the listing gives
\* under each identifier.
get_available_agents(num) ==
    CASE num = "1" -> "innovation" [] num = "2" -> "functionality"
      [] num = "3" -> "technical" [] num = "4" -> "ui_ux_polish"
      [] num = "5" -> "code" [] num = "6" -> "architecture" [] num = "7" -> "ui_ux"
      [] num = "8" -> "security" [] num = "9" -> "learning"
      [] OTHER -> "none"
\* The answers of the requests that were graded without a failure.
Graded(i) ==
    /\ responses[i].success
    /\ "error" \in DOMAIN responses[i].body.results
    /\ responses[i].body.results.error = FALSE
\* The agents with a score in an answer.
Scored(i) ==
    {responses[i].body.results.agent_scores[j][1] :
        j \in 1 .. Len(responses[i].body.results.agent_scores)}
\* C30 as stated: the agent listed under an identifier by /api/agents is the
\* agent that runs when the identifier is selected.
C30_ListedAgentIsTheOneRun ==
    \A i \in 1 .. Len(responses) :
        Graded(i) =>
            Scored(i) = {get_available_agents(num) :
                            num \in Range(responses[i].body.results.selected_agents)}
\* What runs is the orchestrator's own mapping of the identifiers.
C30_OrchestratorMappingRuns ==
    \A i \in 1 .. Len(responses) :
        Graded(i) =>
            Scored(i) = {agent_mapping(num) :
                            num \in Range(responses[i].body.results.selected_agents)}
\* A request selecting identifier 1 alone was graded.
C30_Witness ==
    \E i \in 1 .. Len(responses) :
        /\ Graded(i)
        /\ responses[i].body.results.selected_agents = <<"1">>
        /\ Scored(i) = {"code"}

=============================================================================
